---- MODULE Spec2Model ----
(***************************************************************************)
(* Rule matching of the bank-transaction categoriser.                      *)
(*                                                                         *)
(* Two classifiers are modelled: rules.apply_rules, which reads the rule   *)
(* list and the salary-name map of rules.py, and app.apply_rules_wrapper,  *)
(* which reads the `rules` table of the database through a process-wide    *)
(* cache that is valid for CACHE_DURATION seconds.  The operations that    *)
(* write the table (sync_rules, add_rules_to_database,                     *)
(* push_rules_to_database) and the cache (clear_rules_cache) are actions.  *)
(*                                                                         *)
(* Text is modelled by TLA+ strings; a Python value that may be None is    *)
(* modelled by a sequence of length at most one: None is <<>>, and the     *)
(* value v is <<v>>.                                                       *)
(***************************************************************************)
EXTENDS Integers, Sequences, FiniteSets, TLC

None == <<>>
Some(v) == <<v>>

(***************************************************************************)
(* Strings.                                                                *)
(***************************************************************************)

\* Python's `k in t` for two strings.
Contains(k, t) ==
  \/ Len(k) = 0
  \/ \E i \in 1..(Len(t) - Len(k) + 1) : SubSeq(t, i, i + Len(k) - 1) = k

\* str.startswith
StartsWith(s, p) == Len(s) >= Len(p) /\ SubSeq(s, 1, Len(p)) = p

LowerCaseLetters == "abcdefghijklmnopqrstuvwxyz"
UpperCaseLetters == "ABCDEFGHIJKLMNOPQRSTUVWXYZ"

\* The upper-case letter of each lower-case letter.
UpperMap ==
  [c \in {SubSeq(LowerCaseLetters, i, i) : i \in 1..Len(LowerCaseLetters)} |->
     LET i == CHOOSE j \in 1..Len(LowerCaseLetters) : SubSeq(LowerCaseLetters, j, j) = c
     IN  SubSeq(UpperCaseLetters, i, i)]

UpperChar(c) == IF c \in DOMAIN UpperMap THEN UpperMap[c] ELSE c

\* str.upper (ASCII letters)
RECURSIVE Upper(_)
Upper(s) ==
  IF Len(s) = 0 THEN s
  ELSE UpperChar(SubSeq(s, 1, 1)) \o Upper(SubSeq(s, 2, Len(s)))

Min(S) == CHOOSE x \in S : \A y \in S : x <= y

(***************************************************************************)
(* rules.py: the salary-name map and the rule list of the repository.      *)
(***************************************************************************)

SALARY_NAME_MAP ==
  << [sub |-> "Back Office",
      names |-> <<"DASARI VAMSHI", "DUSARI NARESH", "KARAN SINGH", "KOKI SRIHARI REDDY">>],
     [sub |-> "Operations Team",
      names |-> <<"ARJUN DR EMP", "BALAJI GR", "GARIKAPATI PRADEEP", "KARTHIK DR",
                  "KOLIPAKA BALAKRISHNA", "MALLESHWARI", "NANDI GAMA SHIVA KUMAR",
                  "NELOJEE SAI KUMAR", "P SHIVA KUMAR", "PALTYA RAMESH", "PINAPOTHU RAMU",
                  "PRASAD DR", "RAJESH DR", "SABAVATH SHIVA", "SACHIN GAUR",
                  "SALAVATH SRINU", "THAMMICHETTY KOTESH", "NABADWIP DEBBARMA">>],
     [sub |-> "Customer Care",
      names |-> <<"BOBBILI ARCHANA", "KASIMALLA VAMSHI VARDHAN", "SHAHEEDA",
                  "YELIMALA PRAVEEN">>] >>

RULES_py ==
  << [name |-> "Vet India Pharma", priority |-> 10, any |-> <<"VET INDIA", "PHARMACEUTICALS">>,
      main |-> "Grooming Inventory", sub |-> "Vet India Pharma (VIP)"],
     [name |-> "Nutan Medical", priority |-> 10, any |-> <<"NUTAN MEDICAL">>,
      main |-> "Grooming Inventory", sub |-> "Nutan Medical"],
     [name |-> "ABK Imports", priority |-> 10, any |-> <<"ABK IMPORTS">>,
      main |-> "Grooming Inventory", sub |-> "ABK Imports"],
     [name |-> "Amazon", priority |-> 20, any |-> <<"AMAZON">>,
      main |-> "Grooming Inventory", sub |-> "Amazon"],
     [name |-> "Pubscribe", priority |-> 15, any |-> <<"PUBSCRIBE">>,
      main |-> "Grooming Inventory", sub |-> "Pubscribe Enterprises"],
     [name |-> "Anasuya", priority |-> 15, any |-> <<"ANASUYA">>,
      main |-> "Grooming Inventory", sub |-> "Anasuya Food Tech"],
     [name |-> "Imobility", priority |-> 10, any |-> <<"IMOBILITI", "IMOBILITY">>,
      main |-> "Vehicle Subscription", sub |-> "Imobility Subscription"],
     [name |-> "Fuel Pump", priority |-> 15, any |-> <<"DEEPAKDIRECTORICICI">>,
      main |-> "Fuel", sub |-> "Fuel - Diesel & Petrol"],
     [name |-> "Fuel Generic", priority |-> 30, any |-> <<"PETROL", "DIESEL", "BPCL", "UFILL", "BP PETROL">>,
      main |-> "Fuel", sub |-> "Fuel - Diesel & Petrol"],
     [name |-> "Swiggy", priority |-> 10, any |-> <<"SWIGGY", "INSTAMART">>,
      main |-> "Office Overhead", sub |-> "Swiggy"],
     [name |-> "Water Tanker", priority |-> 30, any |-> <<"TANKER", "WATER TANKER", "KRUPAKAR">>,
      main |-> "Office Overhead", sub |-> "Water Tanker"],
     [name |-> "Milk", priority |-> 30, any |-> <<"MILK">>,
      main |-> "Office Overhead", sub |-> "Milk"],
     [name |-> "Garbage", priority |-> 30, any |-> <<"GARBAGE">>,
      main |-> "Office Overhead", sub |-> "Garbage"],
     [name |-> "Electrician", priority |-> 30, any |-> <<"ELECTRICIAN", "ELECTRICAL">>,
      main |-> "Office Overhead", sub |-> "Electrician"],
     [name |-> "Water Bill", priority |-> 40, any |-> <<"BILLDKHYDERABADMETRO", "HYDERABAD METRO">>,
      main |-> "Office Overhead", sub |-> "Water Bill"],
     [name |-> "Electricity Bill", priority |-> 20, any |-> <<"SOUTHERNPOWERDISTRIB">>,
      main |-> "Electricity maintance & Bill", sub |-> "Electricity Bill"],
     [name |-> "Airtel", priority |-> 10, any |-> <<"AIRTEL", "AIRTELIN", "WWW AIRTEL IN">>,
      main |-> "Telephone & Internet", sub |-> "Airtel Mobile and Internet"],
     [name |-> "IMPS P2P Fee", priority |-> 20, any |-> <<"IMPS P2P", "MIR">>,
      main |-> "Bank Charges", sub |-> "Processing Fee"],
     [name |-> "ATM/Withdr TDS", priority |-> 20, any |-> <<"TDS CASH WITHDRAWAL">>,
      main |-> "Bank Charges", sub |-> "Processing Fee"],
     [name |-> "Petty Cash HIMA", priority |-> 20, any |-> <<"HIMADIRECTOR">>,
      main |-> "Petty Cash", sub |-> "Petty Cash (Mobile Grooming)"],
     [name |-> "Bajaj Finance", priority |-> 10, any |-> <<"BAJAJ FINANCE">>,
      main |-> "Loan EMI Payments", sub |-> "Bajaj Finance"],
     [name |-> "Godrej Finance", priority |-> 10, any |-> <<"GODREJFINANCE">>,
      main |-> "Loan EMI Payments", sub |-> "Godrej Finance"],
     [name |-> "UGRO Capital", priority |-> 10, any |-> <<"UGRO CAPITAL">>,
      main |-> "Loan EMI Payments", sub |-> "UGRO CAPITAL"],
     [name |-> "India Infoline", priority |-> 10, any |-> <<"INFOLINE">>,
      main |-> "Loan EMI Payments", sub |-> "India Infoline Finance"],
     [name |-> "Unity Small", priority |-> 10, any |-> <<"UNITY SMALL", "UNITYSMALL">>,
      main |-> "Loan EMI Payments", sub |-> "Unity Small Finance"],
     [name |-> "Shriram", priority |-> 10, any |-> <<"SHRIRAM">>,
      main |-> "Loan EMI Payments", sub |-> "Shriram Finance"],
     [name |-> "HDFC EMI (CHQ)", priority |-> 40, any |-> <<"EMI ", " CHQ S">>,
      main |-> "Loan EMI Payments", sub |-> "HDFC Loan EMI"],
     [name |-> "HandLoan Rao", priority |-> 10, any |-> <<"VENKATESWARA RAO">>,
      main |-> "Loan EMI Payments", sub |-> "Venkateswara Rao HandLoan"],
     [name |-> "HandLoan Sanjay", priority |-> 10, any |-> <<"SANJAY PAN">>,
      main |-> "Loan EMI Payments", sub |-> "Sanjay Pan HandLoan"],
     [name |-> "Slot Books", priority |-> 25, any |-> <<"SLOT", "BOOKS">>,
      main |-> "Admin Expenses", sub |-> "Slot Books"],
     [name |-> "Vet Doctor", priority |-> 30, any |-> <<"DRKARTHEEK", "VET", "DOCTOR", "KARTHEEK">>,
      main |-> "Admin Expenses", sub |-> "Veterinary Doctor Charges"],
     [name |-> "Hostel Fee", priority |-> 15, any |-> <<"HOSTEL", "SRIPAL REDDY">>,
      main |-> "Employee Welfare", sub |-> "Hostel Fee for Employees"],
     [name |-> "Customer Refund", priority |-> 25, any |-> <<"REFUND", "CUSTOMER", "SLOT">>,
      main |-> "Customer Refund", sub |-> "Customer Refund of Slots"],
     [name |-> "Generator Oil", priority |-> 25, any |-> <<"GENERATOR OIL">>,
      main |-> "Repari & Maintenance", sub |-> "Generator Oil"],
     [name |-> "Plumbing", priority |-> 15, any |-> <<"PLUMBING", "MANOJ MALIK">>,
      main |-> "Repari & Maintenance", sub |-> "Plumbing Maintenance"],
     [name |-> "Water Wash", priority |-> 25, any |-> <<"WATER WASH">>,
      main |-> "Repari & Maintenance", sub |-> "Water Wash"],
     [name |-> "TDS Payment", priority |-> 25, any |-> <<"CBDT">>,
      main |-> "Tax & Duties", sub |-> "TDS Payment"],
     [name |-> "GST Payment", priority |-> 25, any |-> <<"GST">>,
      main |-> "Tax & Duties", sub |-> "GST Payment"],
     [name |-> "EPFO", priority |-> 15, any |-> <<"PSIVR">>,
      main |-> "Tax & Duties", sub |-> "EPFO"] >>


\* The fixed salary-context tokens of rules.apply_rules.
SalaryContext == <<"SALARY", "EXPENSES", "NEFT DR", "IMPS", "TPT">>

\* The all-None triple, and the triple of a hit.
NoVerdict == [main |-> None, sub |-> None, rule_name |-> None]
Verdict(main, sub, rule_name) ==
  [main |-> Some(main), sub |-> Some(sub), rule_name |-> Some(rule_name)]

\* r.get("priority", 100) and r.get("not", [])
PriorityOf(r) == IF "priority" \in DOMAIN r THEN r.priority ELSE 100
NotOf(r) == IF "not" \in DOMAIN r THEN r.not ELSE <<>>

RECURSIVE IndicesByKey(_, _)
\* The indices of keyOf grouped by key, the groups in ascending order of the
\* keys, each group in ascending order of the indices.
IndicesByKey(keys, keyOf) ==
  IF keys = {} THEN <<>>
  ELSE LET m == Min(keys)
           HasKey(i) == keyOf[i] = m
       IN  SelectSeq([i \in 1..Len(keyOf) |-> i], HasKey) \o IndicesByKey(keys \ {m}, keyOf)

\* sorted(seq, key): Python's sort is stable, equal keys keep their order.
SortedByKey(seq, Key(_)) ==
  LET keyOf == [i \in 1..Len(seq) |-> Key(seq[i])]
      order == IndicesByKey({keyOf[i] : i \in 1..Len(seq)}, keyOf)
  IN  [k \in 1..Len(seq) |-> seq[order[k]]]

RECURSIVE SalaryPairs(_)
\* The (sub, name) pairs in the iteration order of the two loops over the map.
SalaryPairs(map) ==
  IF map = <<>> THEN <<>>
  ELSE [j \in 1..Len(Head(map).names) |-> [sub |-> Head(map).sub, nm |-> Head(map).names[j]]]
         \o SalaryPairs(Tail(map))

AnyIn(tokens, text) == \E i \in 1..Len(tokens) : Contains(tokens[i], text)

\* The test of a keyword rule of rules.py.
RuleMatches(r, text) == AnyIn(r.any, text) /\ ~AnyIn(NotOf(r), text)

\* Lines 107-119 of rules.py, on the upper-cased text.
ApplyToText(rules, text) ==
  LET pairs == SalaryPairs(SALARY_NAME_MAP)
      context == AnyIn(SalaryContext, text)
      salaryHits == {i \in 1..Len(pairs) : Contains(pairs[i].nm, text) /\ context}
      sorted == SortedByKey(rules, PriorityOf)
      hits == {i \in 1..Len(sorted) : RuleMatches(sorted[i], text)}
  IN  IF salaryHits # {}
      THEN LET p == pairs[Min(salaryHits)]
           IN  Verdict("Salaries & Wages", p.sub, "Salary name: " \o p.nm)
      ELSE IF hits # {}
      THEN LET r == sorted[Min(hits)] IN Verdict(r.main, r.sub, r.name)
      ELSE NoVerdict

apply_rules(rules, narration) ==
  IF narration = None THEN NoVerdict ELSE ApplyToText(rules, Upper(narration[1]))

(***************************************************************************)
(* The `rules` table and the text of its `keywords` column.                *)
(***************************************************************************)

\* json.dumps of a list of strings: the text of a JSON array.
JsonDumps(list) == [json |-> "array", items |-> list]
\* Column text that json.loads rejects, and text that is JSON but no array.
InvalidJson == [json |-> "invalid", items |-> <<>>]
NumberJson == [json |-> "number", items |-> <<>>]

\* json.loads: the parsed value, or JSONDecodeError.
JsonLoads(text) ==
  IF text.json = "invalid" THEN [ok |-> FALSE, value |-> [type |-> "none", items |-> <<>>]]
  ELSE IF text.json = "array" THEN [ok |-> TRUE, value |-> [type |-> "list", items |-> text.items]]
  ELSE [ok |-> TRUE, value |-> [type |-> "int", items |-> <<>>]]

EmptyList == [type |-> "list", items |-> <<>>]
\* The outcome of a statement that raises instead of giving a value.
Raises == [type |-> "raise", items |-> <<>>]

\* ParseKeywords without the except clause: JSONDecodeError leaves the loop.
ParseKeywords_Unhandled(keywords_json) ==
  IF keywords_json = None THEN EmptyList
  ELSE LET parsed == JsonLoads(keywords_json[1])
       IN  IF parsed.ok THEN parsed.value ELSE Raises

\* Lines 103-107 of app.py: json.loads(keywords_json) if keywords_json else [],
\* with [] when json.loads raises.
ParseKeywords(keywords_json) ==
  IF keywords_json = None THEN EmptyList
  ELSE LET parsed == JsonLoads(keywords_json[1])
       IN  IF parsed.ok THEN parsed.value ELSE EmptyList

\* A row of the table as the INSERT statements of the repository write it.
Row(name, priority, keywords, main_category, sub_category, is_active, created_by) ==
  [name |-> name, priority |-> priority, keywords |-> Some(JsonDumps(keywords)),
   main_category |-> main_category, sub_category |-> sub_category,
   is_active |-> is_active, created_by |-> created_by]

\* ORDER BY priority ASC.  MySQL leaves the order of rows with equal priority
\* open; two of the orders it can produce are modelled: equal priorities in
\* insertion order ("asc") and in reverse insertion order ("desc").
TieOrders == {"asc", "desc"}

Reverse(seq) == [i \in 1..Len(seq) |-> seq[Len(seq) + 1 - i]]

RowPriority(row) == row.priority

OrderByPriority(rows, tie) ==
  IF tie = "asc" THEN SortedByKey(rows, RowPriority)
  ELSE SortedByKey(Reverse(rows), RowPriority)

\* IsActive testing that the flag is set at all instead of its value.
IsActive_AnyValue(row) == row.is_active \in {0, 1}

IsActive(row) == row.is_active = 1

\* SELECT ... FROM rules WHERE is_active = 1 ORDER BY priority ASC
SelectActiveRules(table, tie) == OrderByPriority(SelectSeq(table, IsActive), tie)

\* A rule of the cached snapshot.
SnapshotRule(row) ==
  [name |-> row.name, priority |-> row.priority, keywords |-> ParseKeywords(row.keywords),
   main_category |-> row.main_category, sub_category |-> row.sub_category]

IsSalaryRow(row) == StartsWith(row.name, "Salary: ")
IsRegularRow(row) == ~IsSalaryRow(row)

MapSeq(seq, F(_)) == [i \in 1..Len(seq) |-> F(seq[i])]

\* Lines 94-131 of app.py: the snapshot built from the fetched rows.
BuildSnapshot(results) ==
  LET kept == SelectSeq(results, IsActive)
  IN  [rules |-> MapSeq(SelectSeq(kept, IsRegularRow), SnapshotRule),
       salary_rules |-> MapSeq(SelectSeq(kept, IsSalaryRow), SnapshotRule)]

CACHE_DURATION == 300

\* CacheValid with <= for <.
CacheValid_Inclusive(cache, timestamp, current_time) ==
  /\ cache # None
  /\ timestamp # None
  /\ current_time - timestamp[1] <= CACHE_DURATION

\* The cache test of lines 73-75.
CacheValid(cache, timestamp, current_time) ==
  /\ cache # None
  /\ timestamp # None
  /\ current_time - timestamp[1] < CACHE_DURATION

\* The body of the try block of _load_rules_from_database: the new cache and
\* timestamp, or an exception (get_conn raises when the database is down).
LoadBody(table, up, current_time, tie) ==
  LET snapshot == BuildSnapshot(SelectActiveRules(table, tie))
      all == snapshot.rules \o snapshot.salary_rules
  IN  IF ~up \/ \E i \in 1..Len(all) : all[i].keywords = Raises
      THEN [exc |-> TRUE, ret |-> None, cache |-> None, timestamp |-> None]
      ELSE [exc |-> FALSE, ret |-> Some(snapshot),
            cache |-> Some(snapshot), timestamp |-> Some(current_time)]

\* LoadRules without the except clause of lines 141-143.
LoadRules_Unhandled(cache, timestamp, table, up, current_time, tie) ==
  IF CacheValid(cache, timestamp, current_time)
  THEN [ret |-> cache, cache |-> cache, timestamp |-> timestamp,
        loaded |-> FALSE, queried |-> FALSE, raised |-> FALSE]
  ELSE LET body == LoadBody(table, up, current_time, tie)
       IN  IF body.exc
           THEN [ret |-> None, cache |-> cache, timestamp |-> timestamp,
                 loaded |-> FALSE, queried |-> TRUE, raised |-> TRUE]
           ELSE [ret |-> body.ret, cache |-> body.cache, timestamp |-> body.timestamp,
                 loaded |-> TRUE, queried |-> TRUE, raised |-> FALSE]

\* _load_rules_from_database: what it returns, the cache and timestamp it
\* leaves, whether it went to the database, and whether an exception left it.
LoadRules(cache, timestamp, table, up, current_time, tie) ==
  IF CacheValid(cache, timestamp, current_time)
  THEN [ret |-> cache, cache |-> cache, timestamp |-> timestamp,
        loaded |-> FALSE, queried |-> FALSE, raised |-> FALSE]
  ELSE LET body == LoadBody(table, up, current_time, tie)
       IN  IF body.exc
           THEN [ret |-> None, cache |-> cache, timestamp |-> timestamp,
                 loaded |-> FALSE, queried |-> TRUE, raised |-> FALSE]
           ELSE [ret |-> body.ret, cache |-> body.cache, timestamp |-> body.timestamp,
                 loaded |-> TRUE, queried |-> TRUE, raised |-> FALSE]

\* Lines 163-171: what the salary loop does at one salary rule.
SalaryEvent(rule, text) ==
  IF rule.keywords.type # "list" THEN "raise"
  ELSE LET keywords == rule.keywords.items
       IN  IF /\ Len(keywords) >= 2
              /\ Contains(keywords[1], text)
              /\ AnyIn(Tail(keywords), text)
           THEN "match" ELSE "next"

\* Lines 174-176: what the keyword loop does at one rule.
RuleEvent(rule, text) ==
  IF rule.keywords.type # "list" THEN "raise"
  ELSE IF AnyIn(rule.keywords.items, text) THEN "match" ELSE "next"

\* RuleVerdict with the sub-category left out of the triple.
RuleVerdict_SubDropped(rule) ==
  [main |-> Some(rule.main_category), sub |-> None, rule_name |-> Some(rule.name)]

RuleVerdict(rule) == Verdict(rule.main_category, rule.sub_category, rule.name)

\* The first rule of the loop at which the loop stops, 0 when it runs through.
FirstEvent(rules, text, Event(_, _)) ==
  LET stops == {i \in 1..Len(rules) : Event(rules[i], text) # "next"}
  IN  IF stops = {} THEN 0 ELSE Min(stops)

\* Lines 160-183: the loops over a loaded snapshot, on the upper-cased text.
ApplySnapshotToText(rules_data, text) ==
  LET s == FirstEvent(rules_data.salary_rules, text, SalaryEvent)
      k == FirstEvent(rules_data.rules, text, RuleEvent)
  IN  IF s # 0
      THEN IF SalaryEvent(rules_data.salary_rules[s], text) = "raise"
           THEN NoVerdict
           ELSE RuleVerdict(rules_data.salary_rules[s])
      ELSE IF k # 0
      THEN IF RuleEvent(rules_data.rules[k], text) = "raise"
           THEN NoVerdict
           ELSE RuleVerdict(rules_data.rules[k])
      ELSE NoVerdict

\* Lines 158-183: the verdict over a loaded snapshot.
ApplySnapshot(rules_data, narration) == ApplySnapshotToText(rules_data, Upper(narration))

\* apply_rules_wrapper on the outcome of _load_rules_from_database.
apply_rules_wrapper(load, narration) ==
  IF narration = None THEN [verdict |-> NoVerdict, raised |-> FALSE]
  ELSE IF load.raised THEN [verdict |-> NoVerdict, raised |-> TRUE]
  ELSE IF load.ret = None THEN [verdict |-> NoVerdict, raised |-> FALSE]
  ELSE [verdict |-> ApplySnapshot(load.ret[1], narration[1]), raised |-> FALSE]

(***************************************************************************)
(* Writers of the table.                                                   *)
(***************************************************************************)

RECURSIVE InsertNewRules_NoCheck(_, _)
\* InsertNewRules without the SELECT that looks for the name.
InsertNewRules_NoCheck(table, new_rules) ==
  IF new_rules = <<>> THEN table
  ELSE InsertNewRules_NoCheck(
         Append(table, Row(Head(new_rules).name, Head(new_rules).priority,
                           Head(new_rules).keywords, Head(new_rules).main_category,
                           Head(new_rules).sub_category, 1, "auto-learned")),
         Tail(new_rules))

RECURSIVE InsertNewRules(_, _)
\* Lines 438-466 of app.py: each rule whose name is not yet in the table
\* (rows inserted earlier in the same call included) is appended, active.
InsertNewRules(table, new_rules) ==
  IF new_rules = <<>> THEN table
  ELSE LET rule == Head(new_rules)
           exists == \E i \in 1..Len(table) : table[i].name = rule.name
       IN  IF exists THEN InsertNewRules(table, Tail(new_rules))
           ELSE InsertNewRules(
                  Append(table, Row(rule.name, rule.priority, rule.keywords,
                                    rule.main_category, rule.sub_category, 1, "auto-learned")),
                  Tail(new_rules))

\* Lines 924-953 of app.py: DELETE FROM rules, then one INSERT per payload rule.
SheetRow(r) ==
  Row(r.name, r.priority, r.keywords, r.main_category, r.sub_category,
      IF r.is_active THEN 1 ELSE 0, "sheet-sync")

ReplaceRules(payload) == MapSeq(payload, SheetRow)

\* push_rules_to_db.py, lines 100-105 and 116-122: the rows made of rules.py.
ScriptRuleRow(rule) ==
  Row(rule.name, PriorityOf(rule), rule.any, rule.main, rule.sub, 1, "script")

ScriptSalaryRow(p) ==
  Row("Salary: " \o p.nm, 5, <<p.nm>> \o SalaryContext, "Salaries & Wages", p.sub, 1, "script")

NotByScript(row) == row.created_by # "script"

\* push_rules_to_database: DELETE ... WHERE created_by = 'script', then the inserts.
PushedTable(table, rules) ==
  SelectSeq(table, NotByScript)
    \o MapSeq(rules, ScriptRuleRow)
    \o MapSeq(SalaryPairs(SALARY_NAME_MAP), ScriptSalaryRow)

(***************************************************************************)
(* Bounded inputs.                                                         *)
(***************************************************************************)

MaxPayload == 2
MaxNewRules == 2
MaxClock == 450
ClockStep == 150

RECURSIVE SeqsUpTo(_, _)
\* The sequences over S of length at most n.
SeqsUpTo(S, n) ==
  IF n = 0 THEN {<<>>}
  ELSE LET shorter == SeqsUpTo(S, n - 1)
       IN  shorter \cup {Append(s, x) : s \in shorter, x \in S}

\* Narrations handed to the classifiers (None included).
Narrations ==
  { None,
    Some(""),
    Some("50100541552099-TPT-EXPENSE-SALAVATH"),
    Some("POS 514834XXXXXX2870 AMAZON P"),
    Some("50100440274478-TPT-SALARY-SALAVATH SRINU"),
    Some("NEFT DR-SALAVATH SRINU-AMAZON"),
    Some("salavath srinu salary amazon"),
    Some("SALAVATH SRINU AMAZON"),
    Some("SRINU BONUS AMAZON"),
    Some("UPI-VET INDIA PHARMACEUTICALS"),
    Some("AMAZON REFUND SLOT"),
    Some("MILK AMAZON"),
    Some("ATM CASH") }

\* A rule list of rules.py as an author may write it: with `not` lists and
\* with a rule that leaves its priority to the default.
RULES_authored ==
  << [name |-> "Vet Doctor", priority |-> 30, any |-> <<"VET", "DOCTOR">>,
      not |-> <<"VET INDIA">>,
      main |-> "Admin Expenses", sub |-> "Veterinary Doctor Charges"],
     [name |-> "Amazon", priority |-> 20, any |-> <<"AMAZON">>, not |-> <<"REFUND">>,
      main |-> "Grooming Inventory", sub |-> "Amazon"],
     [name |-> "Customer Refund", any |-> <<"REFUND", "SLOT">>,
      main |-> "Customer Refund", sub |-> "Customer Refund of Slots"],
     [name |-> "Slot Books", priority |-> 100, any |-> <<"SLOT", "BOOKS">>,
      main |-> "Admin Expenses", sub |-> "Slot Books"] >>

RuleLists == {RULES_py, RULES_authored}

\* Rules a sheet sends to /rules/sync (RuleBase).
SheetRules ==
  { [name |-> "Salary: SALAVATH SRINU", priority |-> 5,
     keywords |-> <<"SALAVATH SRINU">> \o SalaryContext,
     main_category |-> "Salaries & Wages", sub_category |-> "Operations Team",
     is_active |-> TRUE],
    [name |-> "Salary: SRINU", priority |-> 50, keywords |-> <<"SRINU", "BONUS">>,
     main_category |-> "Employee Welfare", sub_category |-> "Bonus", is_active |-> TRUE],
    [name |-> "Amazon", priority |-> 20, keywords |-> <<"AMAZON">>,
     main_category |-> "Grooming Inventory", sub_category |-> "Amazon", is_active |-> TRUE],
    [name |-> "Amazon Refund", priority |-> 20, keywords |-> <<"REFUND", "AMAZON">>,
     main_category |-> "Customer Refund", sub_category |-> "Customer Refund of Slots",
     is_active |-> TRUE],
    [name |-> "Milk", priority |-> 10, keywords |-> <<"MILK">>,
     main_category |-> "Office Overhead", sub_category |-> "Milk", is_active |-> FALSE],
    [name |-> "Pos", priority |-> 10, keywords |-> <<"POS">>,
     main_category |-> "Bank Charges", sub_category |-> "Processing Fee", is_active |-> TRUE] }

\* Rules the learner hands to add_rules_to_database.
LearnedRules ==
  { [name |-> "Auto-learned: ATM +1", priority |-> 50, keywords |-> <<"ATM", "CASH">>,
     main_category |-> "Petty Cash", sub_category |-> "Petty Cash (Mobile Grooming)"],
    [name |-> "Amazon", priority |-> 50, keywords |-> <<"AMAZON">>,
     main_category |-> "Office Overhead", sub_category |-> "Amazon"] }

\* Contents of the table that were not written by this program: a row whose
\* keywords text does not parse, one whose keywords are NULL, and one whose
\* keywords are JSON but no array.
UnparsableRow ==
  [name |-> "Broken", priority |-> 10, keywords |-> Some(InvalidJson),
   main_category |-> "Fuel", sub_category |-> "Fuel - Diesel & Petrol",
   is_active |-> 1, created_by |-> "import"]
NullKeywordsRow ==
  [name |-> "Salary: NOBODY", priority |-> 5, keywords |-> None,
   main_category |-> "Salaries & Wages", sub_category |-> "Back Office",
   is_active |-> 1, created_by |-> "import"]
NumberKeywordsRow ==
  [name |-> "Number", priority |-> 15, keywords |-> Some(NumberJson),
   main_category |-> "Fuel", sub_category |-> "Fuel - Diesel & Petrol",
   is_active |-> 1, created_by |-> "import"]
AmazonRow == Row("Amazon", 20, <<"AMAZON">>, "Grooming Inventory", "Amazon", 1, "import")
MilkRow == Row("Milk", 20, <<"MILK">>, "Office Overhead", "Milk", 1, "import")

InitialTables ==
  { <<>>,
    <<UnparsableRow, NullKeywordsRow, AmazonRow>>,
    <<MilkRow, NumberKeywordsRow, AmazonRow>> }

(***************************************************************************)
(* State.                                                                  *)
(***************************************************************************)

VARIABLES
  RULES,                \* rules.py: the rule list apply_rules reads
  rules_table,          \* the committed rows of the `rules` table, in insertion order
  db_up,                \* whether get_conn() succeeds
  now,                  \* time.time(), in seconds
  _db_rules_cache,      \* app.py global: None or the cached snapshot
  _db_rules_timestamp,  \* app.py global: None or the time of the load
  cache_source,         \* the table the cached snapshot was read from (history)
  writer,               \* position of the request that is writing the table
  call,                 \* the classify call that has just returned
  reader,               \* per thread: the position of its classify call in the code
  rules_py,             \* the file rules.py, line by line
  updater,              \* the run of update_rules_file: where it is and its locals
  merge,                \* the run of auto_learn_from_manual_corrections
  learner,              \* the run of a learner script
  request,              \* the row the /classify endpoint is working on
  adders                \* per thread: its call of add_rules_to_database

\* The state of the parts of the program that the operations below leave alone.
elsewhere == <<reader, rules_py, updater, merge, learner, request, adders>>

vars == <<RULES, rules_table, db_up, now, _db_rules_cache, _db_rules_timestamp,
          cache_source, writer, call, elsewhere>>

\* A call: the function, its argument and what it returned or raised; for
\* apply_rules_wrapper also the time it read, the cache timestamp it found,
\* and whether it queried the database, loaded a snapshot and had one to use.
CallRecord(fn, narration, verdict, raised, time, seen, queried, loaded, used) ==
  [fn |-> fn, narration |-> narration, verdict |-> verdict, raised |-> raised,
   time |-> time, seen |-> seen, queried |-> queried, loaded |-> loaded, used |-> used]

NoCall == CallRecord("none", None, NoVerdict, FALSE, 0, None, FALSE, FALSE, FALSE)

\* The request that writes: where it is, the rules it was given, and the cache
\* and timestamp it found when it started.
Idle == [pc |-> "idle", new_rules |-> <<>>, before |-> None]

\* The threads that serve requests at the same time.
Threads == {1, 2}

\* A thread inside apply_rules_wrapper: the line it is at and its locals.
ReaderAt(pc, narration, current_time, results, rules_data, verdict, raised) ==
  [pc |-> pc, narration |-> narration, current_time |-> current_time,
   results |-> results, rules_data |-> rules_data, verdict |-> verdict, raised |-> raised]

NoReader == ReaderAt("idle", None, 0, None, None, NoVerdict, FALSE)

\* No run of update_rules_file: the version of the script, the text it read,
\* the text it is to write and what it returned.
NoUpdate == [pc |-> "idle", version |-> "", content |-> <<>>, new_content |-> <<>>,
             result |-> FALSE]

\* No run of auto_learn_from_manual_corrections: the corrections still to
\* handle, the table when the run began, the table as the run's connection
\* sees it, the ids it has updated, the rules it is to add, and what it found
\* for each correction handled.
NoMerge == [pc |-> "idle", corrections |-> <<>>, before |-> <<>>, view |-> <<>>,
            updated_rules |-> {}, new_rules |-> <<>>, handled |-> <<>>]

\* No run of a learner script: the runs so far, the rows the query returns
\* and those still to group, the keywords of the rules in rules.py, the groups,
\* the rules returned, the run whose rules went into rules.py last, and the
\* single calls of the two text functions.
NoLearner == [pc |-> "idle", version |-> "", runs |-> 0, all_transactions |-> <<>>,
              transactions |-> <<>>, existing_keywords |-> {}, pattern_groups |-> <<>>,
              new_rules |-> <<>>, adopted |-> None, calls |-> <<>>]

\* No row at the /classify endpoint: the description, its normal form, what
\* the rule stage returned, whether the two fallbacks were called, and the
\* fields of the response.
NoRequest == [pc |-> "idle", description |-> "", nd |-> "", vendor |-> "",
              staged |-> NoVerdict, ml_called |-> FALSE, llm_called |-> FALSE,
              rule_hit |-> "", main_category_suggested |-> "",
              sub_category_suggested |-> "", confidence |-> 0]

\* No call of add_rules_to_database: the rules still to handle and those
\* given, the rows its connection read at its first SELECT, the rows it has
\* inserted, and whether no other call ran during this one.
NoAdder == [pc |-> "idle", new_rules |-> <<>>, given |-> <<>>, snapshot |-> None,
            inserted |-> <<>>, alone |-> TRUE]

ElsewhereInit ==
  /\ adders = [t \in Threads |-> NoAdder]
  /\ reader = [t \in Threads |-> NoReader]
  /\ rules_py = <<>>
  /\ updater = NoUpdate
  /\ merge = NoMerge
  /\ learner = NoLearner
  /\ request = NoRequest

Init ==
  /\ RULES \in RuleLists
  /\ rules_table \in InitialTables
  /\ db_up = TRUE
  /\ now = 0
  /\ _db_rules_cache = None
  /\ _db_rules_timestamp = None
  /\ cache_source = None
  /\ writer = Idle
  /\ call = NoCall
  /\ ElsewhereInit

(***************************************************************************)
(* Operations.  A classify call is served as one step; its response is     *)
(* handed back (Return) before the next operation of the service starts.   *)
(***************************************************************************)

\* rules.apply_rules(narration)
ApplyRules(narration) ==
  /\ call = NoCall
  /\ call' = CallRecord("apply_rules", narration, apply_rules(RULES, narration),
                         FALSE, 0, None, FALSE, FALSE, FALSE)
  /\ UNCHANGED <<elsewhere, RULES, rules_table, db_up, now, _db_rules_cache, _db_rules_timestamp,
                 cache_source, writer>>

\* app.apply_rules_wrapper(narration); tie is the order in which the database
\* returns rows of equal priority if the call queries it.
ApplyRulesWrapper(narration, tie) ==
  /\ call = NoCall
  /\ IF narration = None
     THEN /\ call' = CallRecord("apply_rules_wrapper", narration, NoVerdict,
                                 FALSE, 0, None, FALSE, FALSE, FALSE)
          /\ UNCHANGED <<elsewhere, RULES, rules_table, db_up, now, _db_rules_cache,
                         _db_rules_timestamp, cache_source, writer>>
     ELSE LET load == LoadRules(_db_rules_cache, _db_rules_timestamp, rules_table,
                                db_up, now, tie)
              out == apply_rules_wrapper(load, narration)
          IN  /\ _db_rules_cache' = load.cache
              /\ _db_rules_timestamp' = load.timestamp
              /\ cache_source' = IF load.loaded THEN Some(rules_table) ELSE cache_source
              /\ call' = CallRecord("apply_rules_wrapper", narration, out.verdict,
                                     out.raised, now, _db_rules_timestamp,
                                     load.queried, load.loaded, load.ret # None)
              /\ UNCHANGED <<elsewhere, RULES, rules_table, db_up, now, writer>>

\* The response of the classify call is handed to the caller.
Return ==
  /\ call # NoCall
  /\ call' = NoCall
  /\ UNCHANGED <<elsewhere, RULES, rules_table, db_up, now, _db_rules_cache, _db_rules_timestamp,
                 cache_source, writer>>

\* POST /clear-cache
clear_rules_cache ==
  /\ call = NoCall
  /\ _db_rules_cache # None
  /\ _db_rules_cache' = None
  /\ _db_rules_timestamp' = None
  /\ cache_source' = None
  /\ UNCHANGED <<elsewhere, RULES, rules_table, db_up, now, writer, call>>

\* POST /rules/sync, run without interruption: replace, commit, clear the cache.
sync_rules(payload) ==
  /\ call = NoCall
  /\ writer = Idle
  /\ db_up
  /\ rules_table' = ReplaceRules(payload)
  /\ _db_rules_cache' = None
  /\ _db_rules_timestamp' = None
  /\ cache_source' = None
  /\ UNCHANGED <<elsewhere, RULES, db_up, now, writer, call>>

\* add_rules_to_database(new_rules), run without interruption: clear the
\* cache, insert, commit.  An empty list returns at line 423.
add_rules_to_database(new_rules) ==
  /\ call = NoCall
  /\ writer = Idle
  /\ db_up
  /\ new_rules # <<>>
  /\ rules_table' = InsertNewRules(rules_table, new_rules)
  /\ _db_rules_cache' = None
  /\ _db_rules_timestamp' = None
  /\ cache_source' = None
  /\ UNCHANGED <<elsewhere, RULES, db_up, now, writer, call>>

\* push_rules_to_db.py, a script of its own: it writes the table and does not
\* touch the cache of the service.
push_rules_to_database ==
  /\ call = NoCall
  /\ writer = Idle
  /\ db_up
  /\ rules_table' = PushedTable(rules_table, RULES)
  /\ UNCHANGED <<elsewhere, RULES, db_up, now, _db_rules_cache, _db_rules_timestamp,
                 cache_source, writer, call>>

\* The classifiers over tables written by /rules/sync and by the learner.
NextClassify ==
  \/ \E n \in Narrations : ApplyRules(n)
  \/ \E n \in Narrations, tie \in TieOrders : ApplyRulesWrapper(n, tie)
  \/ Return
  \/ clear_rules_cache
  \/ \E payload \in SeqsUpTo(SheetRules, MaxPayload) : sync_rules(payload)
  \/ \E new_rules \in SeqsUpTo(LearnedRules, MaxNewRules) : add_rules_to_database(new_rules)

SpecClassify == Init /\ [][NextClassify]_vars

\* The classifiers over tables written by push_rules_to_db.py.
NextPush ==
  \/ \E n \in Narrations : ApplyRules(n)
  \/ \E n \in Narrations, tie \in TieOrders : ApplyRulesWrapper(n, tie)
  \/ Return
  \/ clear_rules_cache
  \/ push_rules_to_database

SpecPush == Init /\ [][NextPush]_vars

(***************************************************************************)
(* The service over time: the clock advances, the database goes down and   *)
(* comes back, and the requests that write the table run step by step, so  *)
(* that classify calls fall between the steps of a writer.                 *)
(***************************************************************************)

ServiceNarrations == {Some("POS 514834XXXXXX2870 AMAZON P"), Some("ATM CASH")}

ServiceSheetRules ==
  { [name |-> "Amazon", priority |-> 20, keywords |-> <<"AMAZON">>,
     main_category |-> "Grooming Inventory", sub_category |-> "Amazon", is_active |-> TRUE] }

ServiceLearnedRules ==
  { [name |-> "Auto-learned: ATM +1", priority |-> 50, keywords |-> <<"ATM", "CASH">>,
     main_category |-> "Petty Cash", sub_category |-> "Petty Cash (Mobile Grooming)"] }

InitService ==
  /\ RULES = RULES_py
  /\ rules_table = <<MilkRow>>
  /\ db_up = TRUE
  /\ now = 0
  /\ _db_rules_cache = None
  /\ _db_rules_timestamp = None
  /\ cache_source = None
  /\ writer = Idle
  /\ call = NoCall
  /\ ElsewhereInit

\* time.time() advances.
Tick ==
  /\ call = NoCall
  /\ now + ClockStep <= MaxClock
  /\ now' = now + ClockStep
  /\ UNCHANGED <<elsewhere, RULES, rules_table, db_up, _db_rules_cache, _db_rules_timestamp,
                 cache_source, writer, call>>

\* The database becomes unreachable, or reachable again.
DbDown ==
  /\ call = NoCall
  /\ db_up
  /\ db_up' = FALSE
  /\ UNCHANGED <<elsewhere, RULES, rules_table, now, _db_rules_cache, _db_rules_timestamp,
                 cache_source, writer, call>>

DbUp ==
  /\ call = NoCall
  /\ ~db_up
  /\ db_up' = TRUE
  /\ UNCHANGED <<elsewhere, RULES, rules_table, now, _db_rules_cache, _db_rules_timestamp,
                 cache_source, writer, call>>

\* add_rules_to_database, lines 427-434: connect, clear the cache.
add_rules_clear(new_rules) ==
  /\ call = NoCall
  /\ writer = Idle
  /\ db_up
  /\ new_rules # <<>>
  /\ _db_rules_cache' = None
  /\ _db_rules_timestamp' = None
  /\ cache_source' = None
  /\ writer' = [pc |-> "add", new_rules |-> new_rules,
                before |-> Some(<<_db_rules_cache, _db_rules_timestamp>>)]
  /\ UNCHANGED <<elsewhere, RULES, rules_table, db_up, now, call>>

\* add_rules_to_database, lines 436-474: the inserts become visible at the commit.
add_rules_commit ==
  /\ call = NoCall
  /\ writer.pc = "add"
  /\ db_up
  /\ rules_table' = InsertNewRules(rules_table, writer.new_rules)
  /\ writer' = Idle
  /\ UNCHANGED <<elsewhere, RULES, db_up, now, _db_rules_cache, _db_rules_timestamp,
                 cache_source, call>>

\* add_rules_to_database, lines 476-478: a statement fails, nothing is
\* committed, False is returned.
add_rules_fail ==
  /\ call = NoCall
  /\ writer.pc = "add"
  /\ ~db_up
  /\ writer' = [writer EXCEPT !.pc = "failed"]
  /\ UNCHANGED <<elsewhere, RULES, rules_table, db_up, now, _db_rules_cache, _db_rules_timestamp,
                 cache_source, call>>

\* sync_rules, lines 922-955: delete, insert, commit.
sync_rules_commit(payload) ==
  /\ call = NoCall
  /\ writer = Idle
  /\ db_up
  /\ rules_table' = ReplaceRules(payload)
  /\ writer' = [Idle EXCEPT !.pc = "sync"]
  /\ UNCHANGED <<elsewhere, RULES, db_up, now, _db_rules_cache, _db_rules_timestamp,
                 cache_source, call>>

\* sync_rules, lines 964-967: a statement of the transaction fails after the
\* DELETE and some of the INSERTs; conn.rollback() discards them, the cache
\* lines are not reached and the request answers 500.
sync_rules_fail(payload) ==
  /\ call = NoCall
  /\ writer = Idle
  /\ db_up
  /\ writer' = [pc |-> "failed", new_rules |-> payload,
                before |-> Some(<<_db_rules_cache, _db_rules_timestamp>>)]
  /\ UNCHANGED <<elsewhere, RULES, rules_table, db_up, now, _db_rules_cache,
                 _db_rules_timestamp, cache_source, call>>

\* The failed request has answered.
FailureReported ==
  /\ call = NoCall
  /\ writer.pc = "failed"
  /\ writer' = Idle
  /\ UNCHANGED <<elsewhere, RULES, rules_table, db_up, now, _db_rules_cache,
                 _db_rules_timestamp, cache_source, call>>

\* sync_rules, lines 957-962: clear the cache.
sync_rules_clear ==
  /\ call = NoCall
  /\ writer.pc = "sync"
  /\ _db_rules_cache' = None
  /\ _db_rules_timestamp' = None
  /\ cache_source' = None
  /\ writer' = Idle
  /\ UNCHANGED <<elsewhere, RULES, rules_table, db_up, now, call>>

Next ==
  \/ \E n \in ServiceNarrations, tie \in TieOrders : ApplyRulesWrapper(n, tie)
  \/ Return
  \/ Tick
  \/ DbDown
  \/ DbUp
  \/ clear_rules_cache
  \/ \E new_rules \in SeqsUpTo(ServiceLearnedRules, MaxNewRules) : add_rules_clear(new_rules)
  \/ add_rules_commit
  \/ add_rules_fail
  \/ \E payload \in SeqsUpTo(ServiceSheetRules, MaxPayload) : sync_rules_commit(payload)
  \/ sync_rules_clear
  \/ \E payload \in SeqsUpTo(ServiceSheetRules, MaxPayload) : sync_rules_fail(payload)
  \/ FailureReported

Spec == InitService /\ [][Next]_vars

(***************************************************************************)
(* Requests served by threads of one process.  The endpoints are plain     *)
(* `def` functions, so the server runs them on a thread pool and a thread  *)
(* can be pre-empted between any two reads or writes of the two cache      *)
(* globals.  A classify call is followed from line to line of              *)
(* _load_rules_from_database; POST /clear-cache runs as two assignments.   *)
(***************************************************************************)

ThreadNarrations == {Some("MILK AMAZON")}

InitThreads ==
  /\ RULES = RULES_py
  /\ rules_table = <<MilkRow>>
  /\ db_up = TRUE
  /\ now = 0
  /\ _db_rules_cache = None
  /\ _db_rules_timestamp = None
  /\ cache_source = None
  /\ writer = Idle
  /\ call = NoCall
  /\ ElsewhereInit

Moves(t, next) ==
  /\ reader' = [reader EXCEPT ![t] = next]
  /\ UNCHANGED <<rules_py, adders, updater, merge, learner, request, RULES, rules_table, db_up, now, _db_rules_cache, _db_rules_timestamp,
                 cache_source, writer, call>>

\* Lines 150-154 and 69-70: the call enters _load_rules_from_database and
\* reads the clock.
ReaderStart(t, narration) ==
  /\ reader[t].pc = "idle"
  /\ Moves(t, ReaderAt("line73", narration, now, None, None, NoVerdict, FALSE))

\* Line 73: _db_rules_cache is not None
ReaderTestCache(t) ==
  /\ reader[t].pc = "line73"
  /\ Moves(t, [reader[t] EXCEPT !.pc = IF _db_rules_cache # None THEN "line74" ELSE "line79"])

\* Line 74: _db_rules_timestamp is not None
ReaderTestTimestamp(t) ==
  /\ reader[t].pc = "line74"
  /\ Moves(t, [reader[t] EXCEPT !.pc = IF _db_rules_timestamp # None THEN "line75" ELSE "line79"])

\* Line 75: current_time - _db_rules_timestamp < CACHE_DURATION.  The
\* subtraction raises TypeError when the global is None by now; the test is
\* outside the try of line 78 and the call at line 154 outside that of line 160.
ReaderTestAge(t) ==
  /\ reader[t].pc = "line75"
  /\ Moves(t, IF _db_rules_timestamp = None
              THEN [reader[t] EXCEPT !.pc = "done", !.raised = TRUE]
              ELSE IF reader[t].current_time - _db_rules_timestamp[1] < CACHE_DURATION
              THEN [reader[t] EXCEPT !.pc = "line76"]
              ELSE [reader[t] EXCEPT !.pc = "line79"])

\* Line 76: return _db_rules_cache
ReaderReturnCached(t) ==
  /\ reader[t].pc = "line76"
  /\ Moves(t, [reader[t] EXCEPT !.pc = "line155", !.rules_data = _db_rules_cache])

\* Lines 79-125: query the table and build the two lists; an exception
\* leaves through lines 141-143 with None.
ReaderQuery(t, tie) ==
  /\ reader[t].pc = "line79"
  /\ LET body == LoadBody(rules_table, db_up, reader[t].current_time, tie)
     IN  Moves(t, IF body.exc
                  THEN [reader[t] EXCEPT !.pc = "line155", !.rules_data = None]
                  ELSE [reader[t] EXCEPT !.pc = "line128", !.results = body.cache])

\* Lines 128-131: _db_rules_cache = {...}
ReaderStoreCache(t) ==
  /\ reader[t].pc = "line128"
  /\ _db_rules_cache' = reader[t].results
  /\ cache_source' = Some(rules_table)
  /\ reader' = [reader EXCEPT ![t].pc = "line132"]
  /\ UNCHANGED <<rules_py, adders, updater, merge, learner, request, RULES, rules_table, db_up, now, _db_rules_timestamp, writer, call>>

\* Line 132: _db_rules_timestamp = current_time
ReaderStoreTimestamp(t) ==
  /\ reader[t].pc = "line132"
  /\ _db_rules_timestamp' = Some(reader[t].current_time)
  /\ reader' = [reader EXCEPT ![t].pc = "line139"]
  /\ UNCHANGED <<rules_py, adders, updater, merge, learner, request, RULES, rules_table, db_up, now, _db_rules_cache, cache_source, writer, call>>

\* Line 139: return _db_rules_cache, the global and not the local dict
ReaderReturnLoaded(t) ==
  /\ reader[t].pc = "line139"
  /\ Moves(t, [reader[t] EXCEPT !.pc = "line155", !.rules_data = _db_rules_cache])

\* Lines 155-183 of apply_rules_wrapper, on the local rules_data.
ReaderApply(t) ==
  /\ reader[t].pc = "line155"
  /\ Moves(t, [reader[t] EXCEPT
                 !.pc = "done",
                 !.verdict = IF reader[t].rules_data = None THEN NoVerdict
                             ELSE ApplySnapshot(reader[t].rules_data[1],
                                                reader[t].narration[1])])

\* The response is sent.
ReaderFinish(t) ==
  /\ reader[t].pc = "done"
  /\ Moves(t, NoReader)

\* clear_rules_cache, line 853: _db_rules_cache = None
ClearCacheVariable ==
  /\ writer = Idle
  /\ _db_rules_cache' = None
  /\ writer' = [Idle EXCEPT !.pc = "line854"]
  /\ UNCHANGED <<RULES, rules_table, db_up, now, _db_rules_timestamp, cache_source,
                 call, elsewhere>>

\* clear_rules_cache, line 854: _db_rules_timestamp = None
ClearTimestampVariable ==
  /\ writer.pc = "line854"
  /\ _db_rules_timestamp' = None
  /\ writer' = Idle
  /\ UNCHANGED <<RULES, rules_table, db_up, now, _db_rules_cache, cache_source,
                 call, elsewhere>>

ThreadsTick ==
  /\ now + ClockStep <= MaxClock
  /\ now' = now + ClockStep
  /\ UNCHANGED <<RULES, rules_table, db_up, _db_rules_cache, _db_rules_timestamp,
                 cache_source, writer, call, elsewhere>>

NextThreads ==
  \/ \E t \in Threads, n \in ThreadNarrations : ReaderStart(t, n)
  \/ \E t \in Threads : ReaderTestCache(t)
  \/ \E t \in Threads : ReaderTestTimestamp(t)
  \/ \E t \in Threads : ReaderTestAge(t)
  \/ \E t \in Threads : ReaderReturnCached(t)
  \/ \E t \in Threads, tie \in TieOrders : ReaderQuery(t, tie)
  \/ \E t \in Threads : ReaderStoreCache(t)
  \/ \E t \in Threads : ReaderStoreTimestamp(t)
  \/ \E t \in Threads : ReaderReturnLoaded(t)
  \/ \E t \in Threads : ReaderApply(t)
  \/ \E t \in Threads : ReaderFinish(t)
  \/ ClearCacheVariable
  \/ ClearTimestampVariable
  \/ ThreadsTick

SpecThreads == InitThreads /\ [][NextThreads]_vars

(***************************************************************************)
(* The learner scripts and the file rules.py.  The file is its sequence of *)
(* lines.  update_rules_file reads it, puts the new entries before the     *)
(* last "]" of the text, and writes it back with open(..., "w"), which     *)
(* empties the file before the text goes in.  RuleLearner.update_rules_file*)
(* then parses the file and writes the old text back on SyntaxError;       *)
(* learn_rules.update_rules_file returns True after the write.  The rule   *)
(* strings of the pools hold no quote, backslash or line break, so the     *)
(* replace() calls of the scripts leave them as they are.                  *)
(***************************************************************************)

RECURSIVE JoinQuoted(_, _)
\* ', '.join of the keywords, each between two quote characters q.
JoinQuoted(items, q) ==
  IF items = <<>> THEN ""
  ELSE q \o Head(items) \o q \o
       (IF Tail(items) = <<>> THEN "" ELSE ", " \o JoinQuoted(Tail(items), q))

\* The line of one rule: learn_rules.py 206-212 prints the `any` list with
\* repr(), enhanced_learn_rules.py 271-291 quotes each keyword itself.
EntryLine(version, rule) ==
  "    {\"name\":\"" \o rule.name \o "\", \"priority\":" \o ToString(rule.priority)
    \o ", \"any\":[" \o JoinQuoted(rule.any, IF version = "learn_rules" THEN "'" ELSE "\"")
    \o "], \"main\":\"" \o rule.main \o "\",\"sub\":\"" \o rule.sub \o "\"},"

ListOpen == "RULES: List[dict] = ["

\* Lines 98-119 of rules.py, the lines that matter: the last "]" of the file
\* is the one of r["name"] at line 116.
ApplyRulesCode ==
  << "def apply_rules(narration: Optional[str]):",
     "            return (r[\"main\"], r[\"sub\"], r[\"name\"])",
     "    return (None, None, None)" >>

AmazonEntry ==
  "    {\"name\":\"Amazon\",          \"priority\":20, \"any\":[\"AMAZON\"],                     \"main\":\"Grooming Inventory\",\"sub\":\"Amazon\"},"

\* rules.py as it is in the repository, and a rules.py that ends with the list.
RulesPyFiles ==
  { <<ListOpen, AmazonEntry, "]">> \o ApplyRulesCode,
    <<ListOpen, AmazonEntry, "]">> }

\* content.rfind("]"): the line and the column of the last "]", line 0 if none.
RFind(lines) ==
  LET Cols(s) == {c \in 1..Len(s) : SubSeq(s, c, c) = "]"}
      hits == {k \in 1..Len(lines) : Cols(lines[k]) # {}}
      Max(S) == CHOOSE x \in S : \A y \in S : y <= x
  IN  IF hits = {} THEN [line |-> 0, col |-> 0]
      ELSE [line |-> Max(hits), col |-> Max(Cols(lines[Max(hits)]))]

\* content[:rules_end] + "\n\n    # Auto-learned rules\n" + entries + "\n" +
\* content[rules_end:]
NewContent(lines, entries) ==
  LET at == RFind(lines)
      s == lines[at.line]
  IN  SubSeq(lines, 1, at.line - 1)
        \o << SubSeq(s, 1, at.col - 1), "", "    # Auto-learned rules" >>
        \o entries
        \o << SubSeq(s, at.col, Len(s)) >>
        \o SubSeq(lines, at.line + 1, Len(lines))

\* ast.parse of the file: an empty file parses; otherwise the list is opened,
\* holds blank lines, comments and whole entries, is closed by "]", and is
\* followed by nothing or by the code of apply_rules, intact.
Parses(lines) ==
  LET n == Len(lines)
      InList(s) ==
        \/ s = ""
        \/ StartsWith(s, "    #")
        \/ StartsWith(s, "    {\"name\":\"") /\ SubSeq(s, Len(s) - 2, Len(s)) = "\"},"
  IN  \/ n = 0
      \/ \E k \in 2..n :
            /\ lines[1] = ListOpen
            /\ lines[k] = "]"
            /\ \A i \in 2..(k - 1) : InList(lines[i])
            /\ SubSeq(lines, k + 1, n) \in {<<>>, ApplyRulesCode}

\* What a failed write leaves in a file opened with "w": a part of the text.
PartlyWritten(lines) == {SubSeq(lines, 1, k) : k \in 0..(Len(lines) - 1)}

FileRules ==
  { [name |-> "Auto-learned: ATM +1", priority |-> 50, any |-> <<"ATM", "CASH">>,
     main |-> "Petty Cash", sub |-> "Petty Cash (Mobile Grooming)"],
    [name |-> "Auto-learned: SWIGGYINSTAMART", priority |-> 30, any |-> <<"SWIGGYINSTAMART">>,
     main |-> "Office Overhead", sub |-> "Swiggy"] }

UpdateVersions == {"learn_rules", "enhanced"}

\* The runs of update_rules_file explored start from a file of at most this
\* many lines.
MaxFileLines == 6

InitFile ==
  /\ adders = [t \in Threads |-> NoAdder]
  /\ RULES = RULES_py
  /\ rules_table = <<>>
  /\ db_up = TRUE
  /\ now = 0
  /\ _db_rules_cache = None
  /\ _db_rules_timestamp = None
  /\ cache_source = None
  /\ writer = Idle
  /\ call = NoCall
  /\ reader = [t \in Threads |-> NoReader]
  /\ merge = NoMerge
  /\ learner = NoLearner
  /\ request = NoRequest
  /\ rules_py \in RulesPyFiles
  /\ updater = NoUpdate

FileStep(file, next) ==
  /\ rules_py' = file
  /\ updater' = next
  /\ UNCHANGED <<RULES, rules_table, db_up, now, _db_rules_cache, _db_rules_timestamp,
                 cache_source, writer, call, reader, merge, learner, request, adders>>

\* update_rules_file(new_rules) up to the text to write: an empty list
\* returns False, and so does a file without "]".
UpdateStart(version, new_rules) ==
  /\ updater.pc = "idle"
  /\ Len(rules_py) <= MaxFileLines
  /\ IF new_rules = <<>> \/ RFind(rules_py).line = 0
     THEN FileStep(rules_py, [NoUpdate EXCEPT !.pc = "returned", !.version = version,
                                              !.content = rules_py])
     ELSE FileStep(rules_py,
                   [pc |-> "write", version |-> version, content |-> rules_py,
                    new_content |-> NewContent(rules_py,
                                      [i \in 1..Len(new_rules) |-> EntryLine(version, new_rules[i])]),
                    result |-> FALSE])

\* with open("rules.py", "w") as f: f.write(new_content).  When the write
\* fails the except clause returns False.
UpdateWrite(ok) ==
  /\ updater.pc = "write"
  /\ IF ok
     THEN FileStep(updater.new_content,
                   IF updater.version = "learn_rules"
                   THEN [updater EXCEPT !.pc = "returned", !.result = TRUE]
                   ELSE [updater EXCEPT !.pc = "validate"])
     ELSE \E left \in PartlyWritten(updater.new_content) :
             FileStep(left, [updater EXCEPT !.pc = "returned"])

\* RuleLearner.update_rules_file, lines 298-307: ast.parse of the file.
UpdateValidate ==
  /\ updater.pc = "validate"
  /\ FileStep(rules_py, IF Parses(rules_py)
                        THEN [updater EXCEPT !.pc = "returned", !.result = TRUE]
                        ELSE [updater EXCEPT !.pc = "restore"])

\* Lines 308-313: the old text is written back and False is returned.
UpdateRestore(ok) ==
  /\ updater.pc = "restore"
  /\ IF ok
     THEN FileStep(updater.content, [updater EXCEPT !.pc = "returned"])
     ELSE \E left \in PartlyWritten(updater.content) :
             FileStep(left, [updater EXCEPT !.pc = "returned"])

\* The script ends.
UpdateReturn ==
  /\ updater.pc = "returned"
  /\ FileStep(rules_py, NoUpdate)

NextFile ==
  \/ \E v \in UpdateVersions, new_rules \in SeqsUpTo(FileRules, MaxNewRules) :
        UpdateStart(v, new_rules)
  \/ \E ok \in BOOLEAN : UpdateWrite(ok)
  \/ UpdateValidate
  \/ \E ok \in BOOLEAN : UpdateRestore(ok)
  \/ UpdateReturn

SpecFile == InitFile /\ [][NextFile]_vars

(***************************************************************************)
(* Words of a description.                                                 *)
(***************************************************************************)

\* The characters of a string.
Chars(s) == {SubSeq(s, i, i) : i \in 1..Len(s)}

Whitespace == Chars(" \t")
Digits == Chars("0123456789")
Alphanumerics == Digits \cup Chars(LowerCaseLetters) \cup Chars(UpperCaseLetters)

\* str.isdigit and str.isalnum (ASCII)
IsDigit(w) == Len(w) > 0 /\ \A i \in 1..Len(w) : SubSeq(w, i, i) \in Digits
IsAlnum(w) == Len(w) > 0 /\ \A i \in 1..Len(w) : SubSeq(w, i, i) \in Alphanumerics

\* s.split(sep) for a separator of one character: the fields between the
\* separators, the empty ones too.  seps is the set of separator characters.
RECURSIVE Fields(_, _)
Fields(s, seps) ==
  LET at == {i \in 1..Len(s) : SubSeq(s, i, i) \in seps}
  IN  IF at = {} THEN <<s>>
      ELSE <<SubSeq(s, 1, Min(at) - 1)>> \o Fields(SubSeq(s, Min(at) + 1, Len(s)), seps)

\* s.split(): the words between runs of whitespace.
Split(s) == SelectSeq(Fields(s, Whitespace), LAMBDA w : w # "")

\* s.strip()
Strip(s) ==
  LET kept == {i \in 1..Len(s) : SubSeq(s, i, i) \notin Whitespace}
  IN  IF kept = {} THEN ""
      ELSE SubSeq(s, Min(kept), CHOOSE i \in kept : \A j \in kept : j <= i)

\* seq[:n]
Take(seq, n) == SubSeq(seq, 1, IF Len(seq) < n THEN Len(seq) ELSE n)

(***************************************************************************)
(* auto_learn_from_manual_corrections.  The function reads and updates     *)
(* the table through one connection and commits at the end; the new rules  *)
(* go in through add_rules_to_database, on a connection of its own.        *)
(* get_or_create_category_id writes the table categories_main only.        *)
(***************************************************************************)

MergeStopWords ==
  {"THE", "AND", "FOR", "WITH", "FROM", "TO", "OF", "IN", "ON", "AT", "BY",
   "PAYMENT", "TRANSFER", "NEFT", "IMPS", "UPI"}

\* Lines 502-546: the keywords of one correction.
CorrectionKeywords(correction) ==
  LET description == Upper(correction.description)
      vendor == correction.vendor
      words == Split(description)
      from_words ==
        SelectSeq(words, LAMBDA word : /\ Len(word) >= 3
                                       /\ word \notin MergeStopWords
                                       /\ IsAlnum(word)
                                       /\ ~IsDigit(word))
      vendor_clean == Strip(Upper(vendor))
      keywords ==
        IF Len(vendor) >= 3 /\ vendor_clean \notin MergeStopWords
        THEN Append(from_words, vendor_clean) ELSE from_words
      SalaryWords == {"SALARY", "EXPENSES", "TPT"}
      parts == Fields(Upper(vendor), {"-"})
      at == {i \in 2..Len(words) : words[i] \in SalaryWords}
      employee_name ==
        IF vendor # "" /\ \E p \in {"TPT-SALARY-", "SALARY-"} : Contains(p, Upper(vendor))
        THEN IF Len(parts) >= 3 THEN parts[Len(parts)] ELSE ""
        ELSE IF (\E w \in SalaryWords : Contains(w, description)) /\ at # {}
        THEN words[Min(at) - 1]
        ELSE ""
  IN  IF correction.main_category = "Salaries & Wages" /\ employee_name # ""
      THEN <<employee_name, "SALARY", "EXPENSES", "NEFT DR", "IMPS", "TPT">>
      ELSE keywords

\* JSON_CONTAINS(keywords, json.dumps(keyword)) on a row.
JSON_CONTAINS(row, keyword) ==
  /\ row.keywords # None
  /\ row.keywords[1].json = "array"
  /\ \E i \in 1..Len(row.keywords[1].items) : row.keywords[1].items[i] = keyword

\* The SELECT of lines 552-558 for the first keyword only.
ConflictingRules_FirstKeyword(table, keywords, main_category, sub_category) ==
  {id \in 1..Len(table) :
     /\ JSON_CONTAINS(table[id], keywords[1])
     /\ table[id].main_category # main_category \/ table[id].sub_category # sub_category
     /\ table[id].is_active = 1}

\* Lines 550-561: the ids of the rows the SELECT returns for keywords[:3].
ConflictingRules(table, keywords, main_category, sub_category) ==
  {id \in 1..Len(table) :
     /\ \E k \in 1..Len(Take(keywords, 3)) : JSON_CONTAINS(table[id], keywords[k])
     /\ table[id].main_category # main_category \/ table[id].sub_category # sub_category
     /\ table[id].is_active = 1}

\* Lines 594-599: the SELECT for a rule of the same categories with keywords[0].
ExactRuleExists(table, keywords, main_category, sub_category) ==
  \E id \in 1..Len(table) :
     /\ table[id].main_category = main_category
     /\ table[id].sub_category = sub_category
     /\ JSON_CONTAINS(table[id], keywords[1])
     /\ table[id].is_active = 1

MaxCorrections == 2

MergeCorrections ==
  { [description |-> "milk amazon", vendor |-> "",
     main_category |-> "Office Overhead", sub_category |-> "Milk"],
    [description |-> "SWIGGY ORDER 123", vendor |-> "",
     main_category |-> "Office Overhead", sub_category |-> "Food"],
    [description |-> "SWIGGY FOOD", vendor |-> "",
     main_category |-> "Staff Welfare", sub_category |-> "Meals"],
    [description |-> "MILK", vendor |-> "",
     main_category |-> "Office Overhead", sub_category |-> "Milk"],
    [description |-> "INSTAMART SWIGGY", vendor |-> "",
     main_category |-> "Staff Welfare", sub_category |-> "Meals"],
    [description |-> "NEFT DR KASIMALLA SALARY",
     vendor |-> "50100440274478-TPT-SALARY-KASIMALLA",
     main_category |-> "Salaries & Wages", sub_category |-> "Operations Team"] }

InitMerge ==
  /\ RULES = RULES_py
  /\ rules_table \in {<<AmazonRow, MilkRow>>,
                      <<AmazonRow, MilkRow,
                        Row("Manual: SWIGGY +1", 25, <<"SWIGGY", "ORDER">>,
                            "Office Overhead", "Food", 0, "sheet-sync")>>}
  /\ db_up = TRUE
  /\ now = 0
  /\ _db_rules_cache = None
  /\ _db_rules_timestamp = None
  /\ cache_source = None
  /\ writer = Idle
  /\ call = NoCall
  /\ ElsewhereInit

MergeStep(next) ==
  /\ merge' = next
  /\ UNCHANGED <<RULES, db_up, now, writer, call, reader, rules_py, adders, updater, learner,
                 request>>

\* Lines 489-500: the connection is opened and the rules are loaded; the
\* load fills the cache when it is not valid.
MergeStart(tie) ==
  /\ merge.pc = "idle"
  /\ \E load \in {LoadRules(_db_rules_cache, _db_rules_timestamp, rules_table,
                            db_up, now, tie)} :
         /\ _db_rules_cache' = load.cache
         /\ _db_rules_timestamp' = load.timestamp
         /\ cache_source' = IF load.loaded THEN Some(rules_table) ELSE cache_source
  /\ \E manual_corrections \in SeqsUpTo(MergeCorrections, MaxCorrections) :
        /\ manual_corrections # <<>>
        /\ MergeStep([NoMerge EXCEPT !.pc = "loop", !.corrections = manual_corrections,
                                     !.before = rules_table, !.view = rules_table])
  /\ UNCHANGED rules_table

\* Lines 502-621: one round of the loop.  The UPDATEs are seen by this
\* connection only until the commit.
MergeCorrection ==
  /\ merge.pc = "loop"
  /\ merge.corrections # <<>>
  /\ \E correction \in {Head(merge.corrections)} :
     \E keywords \in {CorrectionKeywords(correction)} :
     \E conflicting_rules \in
          {IF keywords = <<>> THEN {}
           ELSE ConflictingRules(merge.view, keywords, correction.main_category,
                                 correction.sub_category)} :
     \E exists \in
          {keywords # <<>> /\ ExactRuleExists(merge.view, keywords, correction.main_category,
                                              correction.sub_category)} :
     LET main_category == correction.main_category
         sub_category == correction.sub_category
         rule_name ==
           "Manual: " \o keywords[1] \o
             (IF Len(keywords) > 1 THEN " +" \o ToString(Len(keywords) - 1) ELSE "")
         new_rule ==
           [name |-> rule_name, priority |-> 25, keywords |-> Take(keywords, 3),
            main_category |-> main_category, sub_category |-> sub_category]
         handled ==
           Append(merge.handled,
                  [keywords |-> keywords, main_category |-> main_category,
                   sub_category |-> sub_category, conflicting_rules |-> conflicting_rules,
                   exists |-> exists])
         rest == [merge EXCEPT !.corrections = Tail(merge.corrections),
                               !.handled = handled]
     IN  MergeStep(
           IF keywords = <<>> THEN rest
           ELSE IF conflicting_rules # {}
           THEN [rest EXCEPT
                   !.view = [id \in 1..Len(merge.view) |->
                               IF id \in conflicting_rules
                               THEN [merge.view[id] EXCEPT !.main_category = main_category,
                                                           !.sub_category = sub_category,
                                                           !.created_by = "manual-updated"]
                               ELSE merge.view[id]],
                   !.updated_rules = merge.updated_rules \cup conflicting_rules]
           ELSE IF exists THEN rest
           ELSE [rest EXCEPT !.new_rules = Append(merge.new_rules, new_rule)])
  /\ UNCHANGED <<rules_table, _db_rules_cache, _db_rules_timestamp, cache_source>>

\* Lines 618-621: add_rules_to_database(new_rules) when there are new rules.
MergeAddRules ==
  /\ merge.pc = "loop"
  /\ merge.corrections = <<>>
  /\ MergeStep([merge EXCEPT !.pc = "commit"])
  /\ IF merge.new_rules = <<>>
     THEN UNCHANGED <<rules_table, _db_rules_cache, _db_rules_timestamp, cache_source>>
     ELSE /\ rules_table' = InsertNewRules(rules_table, merge.new_rules)
          /\ _db_rules_cache' = None
          /\ _db_rules_timestamp' = None
          /\ cache_source' = None

\* Lines 623-633: the UPDATEs are committed when there are any, and the cache
\* is cleared.
MergeCommit ==
  /\ merge.pc = "commit"
  /\ rules_table' = [id \in 1..Len(rules_table) |->
                       IF id \in merge.updated_rules THEN merge.view[id]
                       ELSE rules_table[id]]
  /\ _db_rules_cache' = None
  /\ _db_rules_timestamp' = None
  /\ cache_source' = None
  /\ MergeStep([merge EXCEPT !.pc = "done"])

\* The function returns.
MergeReturn ==
  /\ merge.pc = "done"
  /\ MergeStep(NoMerge)
  /\ UNCHANGED <<rules_table, _db_rules_cache, _db_rules_timestamp, cache_source>>

NextMerge ==
  \/ \E tie \in TieOrders : MergeStart(tie)
  \/ MergeCorrection
  \/ MergeAddRules
  \/ MergeCommit
  \/ MergeReturn

SpecMerge == InitMerge /\ [][NextMerge]_vars

(***************************************************************************)
(* The learner scripts: learn_rules.py and the RuleLearner class of        *)
(* enhanced_learn_rules.py (SimpleRuleLearner has the same pattern key and *)
(* keywords as RuleLearner).  Confidences are in hundredths.               *)
(***************************************************************************)

LearnVersions == {"learn_rules", "enhanced"}

GenericTokens == {"ACH", "NEFT", "IMPS", "UPI", "POS", "DR", "CR"}

KeywordStopWords ==
  {"THE", "AND", "FOR", "WITH", "FROM", "TO", "OF", "IN", "ON", "AT", "BY",
   "PAYMENT", "TRANSFER", "NEFT", "IMPS", "ACH", "UPI", "POS", "DR", "CR"}

\* create_pattern_key (learn_rules.py) and _create_pattern_key (RuleLearner)
create_pattern_key(version, normalized_desc, vendor_text) ==
  LET vendor_clean == Strip(Upper(vendor_text))
      words == Split(Upper(normalized_desc))
      key_words ==
        IF version = "learn_rules"
        THEN SelectSeq(words, LAMBDA w :
               /\ Len(w) >= 4
               /\ w \notin {"PAYMENT", "TRANSFER", "NEFT", "IMPS", "ACH", "UPI", "POS"})
        ELSE SelectSeq(words, LAMBDA word :
               /\ Len(word) >= 3
               /\ word \notin KeywordStopWords
               /\ ~IsDigit(word)
               /\ IsAlnum(word))
      first == Take(key_words, 3)
      joined == first[1] \o (IF Len(first) >= 2 THEN " " \o first[2] ELSE "")
                         \o (IF Len(first) >= 3 THEN " " \o first[3] ELSE "")
      from_description ==
        IF key_words # <<>> THEN joined ELSE Take(Upper(normalized_desc), 50)
  IN  IF version = "learn_rules"
      THEN IF Len(Strip(vendor_text)) > 0 THEN vendor_clean ELSE from_description
      ELSE IF Len(Strip(vendor_text)) > 2 /\ vendor_clean \notin GenericTokens
           THEN vendor_clean ELSE from_description

\* extract_keywords and _extract_keywords up to set(keywords).
KeywordSet(version, normalized_desc, vendor_text) ==
  LET vendor_clean == Strip(Upper(vendor_text))
      words == Split(Upper(normalized_desc))
      from_words ==
        {words[i] : i \in {j \in 1..Len(words) :
           /\ Len(words[j]) >= 3
           /\ words[j] \notin KeywordStopWords
           /\ version = "learn_rules" \/ (~IsDigit(words[j]) /\ IsAlnum(words[j]))}}
      from_vendor ==
        IF version = "learn_rules"
        THEN IF Len(Strip(vendor_text)) > 0 /\ Len(vendor_clean) >= 3
             THEN {vendor_clean} ELSE {}
        ELSE IF Len(Strip(vendor_text)) > 2 /\ vendor_clean \notin GenericTokens
             THEN {vendor_clean} ELSE {}
  IN  from_words \cup from_vendor

\* list(set(keywords)): the elements in the order of the hash table, which
\* follows the hashes of the strings and differs from one process to the next.
ListsOfSet(S) ==
  {order \in [1..Cardinality(S) -> S] :
     \A i, j \in 1..Cardinality(S) : i # j => order[i] # order[j]}

\* _load_existing_keywords; learn_rules.py reads the `any` lists only.
ExistingKeywords(version, rules) ==
  UNION {{rules[i].any[k] : k \in 1..Len(rules[i].any)} : i \in 1..Len(rules)}
    \cup (IF version = "learn_rules" THEN {}
          ELSE UNION {{SALARY_NAME_MAP[i].names[k] : k \in 1..Len(SALARY_NAME_MAP[i].names)} :
                        i \in 1..Len(SALARY_NAME_MAP)})

\* _calculate_priority; learn_rules.py gives every rule priority 50.
CalculatePriority(version, frequency, confidence_sum) ==
  IF version = "learn_rules" THEN 50
  ELSE IF frequency >= 10 /\ confidence_sum >= 90 * frequency THEN 10
  ELSE IF frequency >= 5 /\ confidence_sum >= 80 * frequency THEN 20
  ELSE IF frequency >= 3 /\ confidence_sum >= 70 * frequency THEN 30
  ELSE 50

RECURSIVE Sum(_)
Sum(numbers) == IF numbers = <<>> THEN 0 ELSE Head(numbers) + Sum(Tail(numbers))

\* GroupRule with the category of the last row of the group.
GroupRule_LastCategory(version, group_data, existing_keywords) ==
  LET frequency == Len(group_data.transactions)
      confidence_sum ==
        Sum([i \in 1..frequency |-> group_data.transactions[i].confidence])
      new_keywords ==
        SelectSeq(group_data.keywords,
                  LAMBDA kw : kw \notin existing_keywords /\ Len(kw) >= 3)
      top_keyword ==
        IF version = "learn_rules" THEN new_keywords[1] ELSE group_data.keywords[1]
  IN  [made |-> frequency >= 2 /\ confidence_sum >= 80 * frequency /\ new_keywords # <<>>,
       name |-> IF new_keywords = <<>> THEN ""
                ELSE "Auto-learned: " \o top_keyword \o
                     (IF Len(new_keywords) > 1
                      THEN " +" \o ToString(Len(new_keywords) - 1) ELSE ""),
       priority |-> CalculatePriority(version, frequency, confidence_sum),
       any |-> Take(new_keywords, 3),
       main |-> group_data.transactions[frequency].main_category,
       sub |-> group_data.transactions[frequency].sub_category,
       frequency |-> frequency,
       confidence_sum |-> confidence_sum]

\* One round of the loop of _generate_rules_from_patterns: the rule of a
\* group, made when the group passes the thresholds and has new keywords.
GroupRule(version, group_data, existing_keywords) ==
  LET frequency == Len(group_data.transactions)
      confidence_sum ==
        Sum([i \in 1..frequency |-> group_data.transactions[i].confidence])
      new_keywords ==
        SelectSeq(group_data.keywords,
                  LAMBDA kw : kw \notin existing_keywords /\ Len(kw) >= 3)
      top_keyword ==
        IF version = "learn_rules" THEN new_keywords[1] ELSE group_data.keywords[1]
  IN  [made |-> frequency >= 2 /\ confidence_sum >= 80 * frequency /\ new_keywords # <<>>,
       name |-> IF new_keywords = <<>> THEN ""
                ELSE "Auto-learned: " \o top_keyword \o
                     (IF Len(new_keywords) > 1
                      THEN " +" \o ToString(Len(new_keywords) - 1) ELSE ""),
       priority |-> CalculatePriority(version, frequency, confidence_sum),
       any |-> Take(new_keywords, 3),
       main |-> group_data.main_category,
       sub |-> group_data.sub_category,
       frequency |-> frequency,
       confidence_sum |-> confidence_sum]

\* Lines 201-239 and 103-107: the rules of the groups, most frequent and most
\* confident first, at most max_rules of them (RuleLearner).
GenerateRules(version, pattern_groups, existing_keywords) ==
  LET rules == SelectSeq([i \in 1..Len(pattern_groups) |->
                            GroupRule(version, pattern_groups[i], existing_keywords)],
                         LAMBDA r : r.made)
      Key(r) == 0 - (r.frequency * 100000 + r.confidence_sum)
      sorted == SortedByKey(rules, Key)
  IN  IF version = "learn_rules" THEN sorted ELSE Take(sorted, 50)

\* learn_rules_from_database of app.py, behind POST /learn-rules.  The rows
\* of one group of the query: GROUP BY normalized_desc, vendor_text,
\* sub_category_text, cm.name.
SameQueryGroup(a, b) ==
  /\ a.normalized_desc = b.normalized_desc
  /\ a.vendor_text = b.vendor_text
  /\ a.sub_category = b.sub_category
  /\ a.main_category = b.main_category

\* The groups of the rows, in the order of their first rows.
GroupRows(rows) ==
  LET indices == [i \in 1..Len(rows) |-> i]
      firsts == SelectSeq(indices, LAMBDA i :
                  \A j \in 1..(i - 1) : ~SameQueryGroup(rows[j], rows[i]))
  IN  [k \in 1..Len(firsts) |->
         [normalized_desc |-> rows[firsts[k]].normalized_desc,
          vendor_text |-> rows[firsts[k]].vendor_text,
          sub_category |-> rows[firsts[k]].sub_category,
          main_category |-> rows[firsts[k]].main_category,
          transactions |-> SelectSeq(rows, LAMBDA t : SameQueryGroup(t, rows[firsts[k]]))]]

GroupConfidenceSum(group) ==
  Sum([i \in 1..Len(group.transactions) |-> group.transactions[i].confidence])

\* Lines 295-313: WHERE tc.confidence > 0.8 AND tc.normalized_desc != '',
\* HAVING COUNT(*) >= 2, ORDER BY frequency DESC, avg_confidence DESC.
QueryGroups(rows) ==
  LET kept == SelectSeq(rows, LAMBDA t : t.confidence > 80 /\ t.normalized_desc # "")
      having == SelectSeq(GroupRows(kept), LAMBDA g : Len(g.transactions) >= 2)
      Key(g) == 0 - (Len(g.transactions) * 100000 + GroupConfidenceSum(g))
  IN  SortedByKey(having, Key)

\* Lines 334-350: the keywords of one row of the query.
AppKeywords(normalized_desc, vendor_text, existing_keywords) ==
  LET words == Split(Upper(normalized_desc))
      keywords ==
        SelectSeq(words, LAMBDA word :
          /\ Len(word) >= 3
          /\ word \notin existing_keywords
          /\ word \notin MergeStopWords
          /\ IsAlnum(word)
          /\ ~IsDigit(word))
      vendor_clean == Strip(Upper(vendor_text))
  IN  keywords \o (IF Len(vendor_text) >= 3 /\ vendor_clean \notin existing_keywords
                   THEN <<vendor_clean>> ELSE <<>>)

\* Lines 327-367: one round of the loop over the rows of the query.
AppRule(group, existing_keywords) ==
  LET keywords == AppKeywords(group.normalized_desc, group.vendor_text, existing_keywords)
      frequency == Len(group.transactions)
      confidence_sum == GroupConfidenceSum(group)
  IN  [made |-> /\ group.main_category # ""
                /\ group.sub_category # ""
                /\ keywords # <<>>
                /\ frequency >= 2
                /\ confidence_sum > 80 * frequency,
       name |-> IF keywords = <<>> THEN ""
                ELSE "Auto-learned: " \o keywords[1] \o
                     (IF Len(keywords) > 1
                      THEN " +" \o ToString(Len(keywords) - 1) ELSE ""),
       priority |-> 50,
       keywords |-> Take(keywords, 3),
       main_category |-> group.main_category,
       sub_category |-> group.sub_category,
       frequency |-> frequency,
       confidence_sum |-> confidence_sum]

\* Lines 321-325: the keywords of the rules and salary rules of the snapshot.
SnapshotKeywords(rules_data) ==
  LET all == rules_data.rules \o rules_data.salary_rules
  IN  UNION {{all[i].keywords.items[k] : k \in 1..Len(all[i].keywords.items)} :
               i \in 1..Len(all)}

MaxCount == 2
MaxRuns == 2

RECURSIVE Repeat(_, _)
Repeat(row, n) == IF n = 0 THEN <<>> ELSE <<row>> \o Repeat(row, n - 1)

\* Rows of the transactions view.
LearnTransactions ==
  { [normalized_desc |-> "ZOMATO ONLINE ORDER FOOD", vendor_text |-> "ZOMATO",
     main_category |-> "Office Overhead", sub_category |-> "Food", confidence |-> 90],
    [normalized_desc |-> "ZOMATO DINEOUT", vendor_text |-> "ZOMATO",
     main_category |-> "Staff Welfare", sub_category |-> "Meals", confidence |-> 80],
    [normalized_desc |-> "ACH D-BAJAJ FINANCE", vendor_text |-> "ACH",
     main_category |-> "Loan", sub_category |-> "Bajaj Finance", confidence |-> 95],
    [normalized_desc |-> "POS BIGBASKET", vendor_text |-> "12345",
     main_category |-> "Office Overhead", sub_category |-> "Groceries", confidence |-> 85],
    [normalized_desc |-> "UPI AB STORES", vendor_text |-> "AB ",
     main_category |-> "Office Overhead", sub_category |-> "Stationery", confidence |-> 90] }

LearnBatches ==
  {Repeat(a, n) \o Repeat(b, m) :
     a \in LearnTransactions, b \in LearnTransactions, n \in 0..MaxCount, m \in 0..1}

\* The rows the query of the learner returns are the same in every run.
InitLearn ==
  /\ adders = [t \in Threads |-> NoAdder]
  /\ RULES = RULES_py
  /\ rules_table = <<>>
  /\ db_up = TRUE
  /\ now = 0
  /\ _db_rules_cache = None
  /\ _db_rules_timestamp = None
  /\ cache_source = None
  /\ writer = Idle
  /\ call = NoCall
  /\ reader = [t \in Threads |-> NoReader]
  /\ rules_py = <<>>
  /\ updater = NoUpdate
  /\ merge = NoMerge
  /\ request = NoRequest
  /\ learner \in {[NoLearner EXCEPT !.all_transactions = rows] : rows \in LearnBatches}

LearnStep(next) ==
  /\ learner' = next
  /\ UNCHANGED <<rules_table, db_up, now, _db_rules_cache, _db_rules_timestamp,
                 cache_source, writer, call, reader, rules_py, adders, updater, merge, request>>

\* One call of create_pattern_key and of extract_keywords in a process of
\* its own, as test_learn_rules.py makes them, without a database.
PatternCall(version, row) ==
  /\ learner.pc = "idle"
  /\ learner.all_transactions = <<>>
  /\ Len(learner.calls) < 2
  /\ \E keywords \in ListsOfSet(KeywordSet(version, row.normalized_desc, row.vendor_text)) :
        LearnStep([learner EXCEPT !.calls =
           Append(@, [version |-> version, normalized_desc |-> row.normalized_desc,
                      vendor_text |-> row.vendor_text,
                      pattern_key |-> create_pattern_key(version, row.normalized_desc,
                                                         row.vendor_text),
                      keywords |-> keywords])])
  /\ UNCHANGED RULES

\* learn_rules_from_database: the rows of the query and the keywords of the
\* rules in rules.py.  The runs of one behaviour are runs of one learner.
LearnStart(version) ==
  /\ learner.pc = "idle"
  /\ learner.all_transactions # <<>>
  /\ learner.runs < MaxRuns
  /\ learner.runs = 0 \/ learner.version = version
  /\ LearnStep([learner EXCEPT !.pc = "group", !.version = version,
                               !.runs = @ + 1,
                               !.transactions = learner.all_transactions,
                               !.existing_keywords = ExistingKeywords(version, RULES),
                               !.pattern_groups = <<>>, !.new_rules = <<>>])
  /\ UNCHANGED RULES

\* One round of the loop of _group_transactions_by_patterns.
LearnGroup ==
  /\ learner.pc = "group"
  /\ learner.transactions # <<>>
  /\ LET row == Head(learner.transactions)
         rest == [learner EXCEPT !.transactions = Tail(@)]
         pattern_key == create_pattern_key(learner.version, row.normalized_desc,
                                           row.vendor_text)
         at == {i \in 1..Len(learner.pattern_groups) :
                  learner.pattern_groups[i].pattern_key = pattern_key}
     IN  IF row.main_category = "" \/ row.sub_category = ""
         THEN LearnStep(rest)
         ELSE IF at = {}
         THEN \E keywords \in ListsOfSet(KeywordSet(learner.version, row.normalized_desc,
                                                    row.vendor_text)) :
                 LearnStep([rest EXCEPT !.pattern_groups =
                    Append(@, [pattern_key |-> pattern_key, transactions |-> <<row>>,
                               main_category |-> row.main_category,
                               sub_category |-> row.sub_category,
                               keywords |-> keywords])])
         ELSE LearnStep([rest EXCEPT
                 !.pattern_groups[CHOOSE i \in at : TRUE].transactions = Append(@, row)])
  /\ UNCHANGED RULES

\* The rules are generated, sorted and returned.
LearnGenerate ==
  /\ learner.pc = "group"
  /\ learner.transactions = <<>>
  /\ LearnStep([learner EXCEPT !.pc = "done",
                  !.new_rules = GenerateRules(learner.version, learner.pattern_groups,
                                              learner.existing_keywords)])
  /\ UNCHANGED RULES

\* The rules learned are put into rules.py, which the next run imports.
LearnAdopt ==
  /\ learner.pc = "done"
  /\ learner.version \in LearnVersions
  /\ RULES' = RULES \o [i \in 1..Len(learner.new_rules) |->
                          [name |-> learner.new_rules[i].name,
                           priority |-> learner.new_rules[i].priority,
                           any |-> learner.new_rules[i].any,
                           main |-> learner.new_rules[i].main,
                           sub |-> learner.new_rules[i].sub]]
  /\ LearnStep([learner EXCEPT !.pc = "idle", !.pattern_groups = <<>>,
                               !.adopted = Some([version |-> learner.version,
                                                 new_rules |-> learner.new_rules])])

\* POST /learn-rules, lines 742-753: learn_rules_from_database of app.py over
\* the reviewed rows, with the keywords of the rules the service loads.
LearnApp(tie) ==
  /\ learner.pc = "idle"
  /\ learner.all_transactions # <<>>
  /\ learner.runs < MaxRuns
  /\ learner.runs = 0 \/ learner.version = "app"
  /\ \E load \in {LoadRules(_db_rules_cache, _db_rules_timestamp, rules_table,
                            db_up, now, tie)} :
     \E existing_keywords \in {IF load.ret = None THEN {}
                               ELSE SnapshotKeywords(load.ret[1])} :
     \E results \in {QueryGroups(learner.all_transactions)} :
       /\ _db_rules_cache' = load.cache
       /\ _db_rules_timestamp' = load.timestamp
       /\ cache_source' = IF load.loaded THEN Some(rules_table) ELSE cache_source
       /\ learner' =
            [learner EXCEPT
               !.pc = "done", !.version = "app", !.runs = @ + 1,
               !.transactions = <<>>,
               !.existing_keywords = existing_keywords,
               !.pattern_groups = results,
               !.new_rules =
                  SelectSeq([i \in 1..Len(results) |-> AppRule(results[i], existing_keywords)],
                            LAMBDA r : r.made)]
  /\ UNCHANGED <<RULES, rules_table, db_up, now, writer, call, reader, rules_py, adders,
                 updater, merge, request>>

\* Line 752 and lines 419-478: add_rules_to_database puts the rules learned
\* into the table and clears the cache.
LearnAppAdd ==
  /\ learner.pc = "done"
  /\ learner.version = "app"
  /\ IF learner.new_rules = <<>>
     THEN UNCHANGED <<rules_table, _db_rules_cache, _db_rules_timestamp, cache_source>>
     ELSE /\ rules_table' = InsertNewRules(rules_table, learner.new_rules)
          /\ _db_rules_cache' = None
          /\ _db_rules_timestamp' = None
          /\ cache_source' = None
  /\ learner' = [learner EXCEPT !.pc = "idle", !.pattern_groups = <<>>]
  /\ UNCHANGED <<RULES, db_up, now, writer, call, reader, rules_py, adders, updater, merge, request>>

NextLearn ==
  \/ \E version \in LearnVersions, row \in LearnTransactions : PatternCall(version, row)
  \/ \E version \in LearnVersions : LearnStart(version)
  \/ LearnGroup
  \/ LearnGenerate
  \/ LearnAdopt
  \/ \E tie \in TieOrders : LearnApp(tie)
  \/ LearnAppAdd

SpecLearn == InitLearn /\ [][NextLearn]_vars

(***************************************************************************)
(* Two calls of add_rules_to_database at the same time, each on a thread   *)
(* and a connection of its own (POST /learn-rules is a plain `def`).  A    *)
(* connection reads the committed rows as they were at its first SELECT    *)
(* (InnoDB's REPEATABLE READ) and its own inserts; its inserts reach the   *)
(* table at its commit.                                                    *)
(***************************************************************************)

\* NameExists answering that no row has the name.
NameExists_Never(view, name) == FALSE

\* SELECT id FROM rules WHERE name = %s, lines 440-444.
NameExists(view, name) == \E i \in 1..Len(view) : view[i].name = name

RaceTable == <<AmazonRow, MilkRow>>

InitRace ==
  /\ RULES = RULES_py
  /\ rules_table = RaceTable
  /\ db_up = TRUE
  /\ now = 0
  /\ _db_rules_cache = None
  /\ _db_rules_timestamp = None
  /\ cache_source = None
  /\ writer = Idle
  /\ call = NoCall
  /\ ElsewhereInit

Running(t) == adders[t].pc \in {"loop", "commit"}

AdderStep(next) ==
  /\ adders' = next
  /\ UNCHANGED <<RULES, db_up, now, writer, call, reader, rules_py, updater, merge,
                 learner, request>>

\* Lines 423-436: the connection is opened and the cache is cleared.
AddStart(t, new_rules) ==
  /\ adders[t].pc = "idle"
  /\ new_rules # <<>>
  /\ _db_rules_cache' = None
  /\ _db_rules_timestamp' = None
  /\ cache_source' = None
  /\ AdderStep([u \in Threads |->
        IF u = t
        THEN [NoAdder EXCEPT !.pc = "loop", !.new_rules = new_rules, !.given = new_rules,
                             !.alone = \A v \in Threads \ {t} : ~Running(v)]
        ELSE IF Running(u) THEN [adders[u] EXCEPT !.alone = FALSE]
        ELSE adders[u]])
  /\ UNCHANGED rules_table

\* Lines 438-466: one round of the loop, the SELECT and the INSERT.
AddRule(t) ==
  /\ adders[t].pc = "loop"
  /\ \E rule \in {Head(adders[t].new_rules)} :
     \E snapshot \in {IF adders[t].snapshot = None THEN rules_table
                      ELSE adders[t].snapshot[1]} :
       AdderStep([adders EXCEPT
         ![t].snapshot = Some(snapshot),
         ![t].new_rules = Tail(@),
         ![t].pc = IF Tail(adders[t].new_rules) = <<>> THEN "commit" ELSE "loop",
         ![t].inserted =
            IF NameExists(snapshot \o adders[t].inserted, rule.name) THEN @
            ELSE Append(@, Row(rule.name, rule.priority, rule.keywords, rule.main_category,
                               rule.sub_category, 1, "auto-learned"))])
  /\ UNCHANGED <<rules_table, _db_rules_cache, _db_rules_timestamp, cache_source>>

\* Lines 468-474: conn.commit() and the return.
AddCommit(t) ==
  /\ adders[t].pc = "commit"
  /\ rules_table' = rules_table \o adders[t].inserted
  /\ AdderStep([adders EXCEPT ![t].pc = "returned"])
  /\ UNCHANGED <<_db_rules_cache, _db_rules_timestamp, cache_source>>

NextRace ==
  \/ \E t \in Threads, new_rules \in SeqsUpTo(LearnedRules, MaxNewRules) :
        AddStart(t, new_rules)
  \/ \E t \in Threads : AddRule(t)
  \/ \E t \in Threads : AddCommit(t)

SpecRace == InitRace /\ [][NextRace]_vars

(***************************************************************************)
(* The /classify endpoint: normalize_desc, the rule stage, the ML          *)
(* classifier and the LLM fallback, for one row of the request.            *)
(* Confidences are in hundredths.                                          *)
(***************************************************************************)

RECURSIVE CollapseWhitespace(_)
\* re.sub(r'\s+', ' ', s): every run of whitespace becomes one space.
CollapseWhitespace(s) ==
  IF s = "" THEN ""
  ELSE IF SubSeq(s, 1, 1) \in Whitespace
  THEN LET rest == {i \in 1..Len(s) : SubSeq(s, i, i) \notin Whitespace}
       IN  " " \o (IF rest = {} THEN ""
                   ELSE CollapseWhitespace(SubSeq(s, Min(rest), Len(s))))
  ELSE SubSeq(s, 1, 1) \o CollapseWhitespace(SubSeq(s, 2, Len(s)))

RECURSIVE DeleteOutside(_, _)
\* re.sub(r'[^...]', '', s): the characters outside the class are deleted.
DeleteOutside(s, class) ==
  IF s = "" THEN ""
  ELSE (IF SubSeq(s, 1, 1) \in class THEN SubSeq(s, 1, 1) ELSE "")
         \o DeleteOutside(SubSeq(s, 2, Len(s)), class)

normalize_desc(s) ==
  DeleteOutside(Strip(CollapseWhitespace(s)), Alphanumerics \cup Chars(" &:/._-"))

ML_THRESHOLD == 75

\* What ml_main_category returns: no model or an exception, a confident
\* prediction, a prediction under the threshold.
MlPredictions ==
  { [pred |-> "Uncategorized", pconf |-> 0],
    [pred |-> "Office Overhead", pconf |-> 90],
    [pred |-> "Office Overhead", pconf |-> 40] }

\* What llm_subcategory returns: "Misc" without a key or on an exception,
\* or the text of the answer.
LlmAnswers == {"Misc", "Vendor payment"}

MaxLen == 4

RECURSIVE StringsUpTo(_, _)
StringsUpTo(alphabet, n) ==
  IF n = 0 THEN {""}
  ELSE LET shorter == StringsUpTo(alphabet, n - 1)
       IN  shorter \cup {s \o c : s \in shorter, c \in alphabet}

Descriptions ==
  StringsUpTo({"A", " ", "\t", "#"}, MaxLen)
    \cup {"pos  amazon #42", "RENT  june", "deposit refund"}

\* A rule without sub-category and a rule without main category, as the
\* sheet can hold them: RuleBase asks for strings only.
RentRow == Row("Rent", 30, <<"RENT">>, "Rent", "", 1, "sheet-sync")
DepositRow == Row("Deposit", 30, <<"DEPOSIT">>, "", "Deposit", 1, "sheet-sync")

InitEndpoint ==
  /\ RULES = RULES_py
  /\ rules_table = <<AmazonRow, RentRow, DepositRow>>
  /\ db_up = TRUE
  /\ now = 0
  /\ _db_rules_cache = None
  /\ _db_rules_timestamp = None
  /\ cache_source = None
  /\ writer = Idle
  /\ call = NoCall
  /\ ElsewhereInit

\* classify, lines 642-666, for one row.  The rule stage loads the rules as
\* every call of apply_rules_wrapper does.
classify(description, tie) ==
  /\ request.pc = "idle"
  /\ \E nd \in {normalize_desc(description)} :
     \E load \in {LoadRules(_db_rules_cache, _db_rules_timestamp, rules_table,
                            db_up, now, tie)} :
     \E staged \in {apply_rules_wrapper(load, Some(nd)).verdict} :
     \E no_main \in {staged.main = None \/ staged.main = Some("")},
        no_sub \in {staged.sub = None \/ staged.sub = Some("")} :
     \E ml \in (IF no_main THEN MlPredictions ELSE {[pred |-> "", pconf |-> 0]}),
        llm \in (IF no_sub THEN LlmAnswers ELSE {""}) :
       /\ _db_rules_cache' = load.cache
       /\ _db_rules_timestamp' = load.timestamp
       /\ cache_source' = IF load.loaded THEN Some(rules_table) ELSE cache_source
       /\ request' =
            [pc |-> "classified", description |-> description, nd |-> nd,
             vendor |-> IF nd # "" THEN Take(Fields(nd, {" "})[1], 40) ELSE "",
             staged |-> staged, ml_called |-> no_main, llm_called |-> no_sub,
             rule_hit |-> IF staged.rule_name = None THEN "" ELSE staged.rule_name[1],
             main_category_suggested |->
               IF ~no_main THEN staged.main[1]
               ELSE IF ml.pconf >= ML_THRESHOLD THEN ml.pred ELSE "Uncategorized",
             sub_category_suggested |-> IF ~no_sub THEN staged.sub[1] ELSE llm,
             confidence |-> IF ~no_main THEN 95 ELSE ml.pconf]
  /\ UNCHANGED <<RULES, rules_table, db_up, now, writer, call, reader, rules_py, adders,
                 updater, merge, learner>>

\* The response is sent.
Respond ==
  /\ request.pc = "classified"
  /\ request' = NoRequest
  /\ UNCHANGED <<RULES, rules_table, db_up, now, _db_rules_cache, _db_rules_timestamp,
                 cache_source, writer, call, reader, rules_py, adders, updater, merge, learner>>

NextEndpoint ==
  \/ \E description \in Descriptions, tie \in TieOrders : classify(description, tie)
  \/ Respond

SpecEndpoint == InitEndpoint /\ [][NextEndpoint]_vars

(***************************************************************************)
(* Properties.  The classify call they speak of is the one recorded in     *)
(* `call`; the snapshot it used is the cached one, read from cache_source. *)
(***************************************************************************)

IsStaticCall == call.fn = "apply_rules" /\ call.narration # None
IsWrapperCall == call.fn = "apply_rules_wrapper" /\ call.narration # None
CallText == Upper(call.narration[1])
Snapshot == _db_rules_cache[1]
Source == cache_source[1]

AllNull(v) == v.main = None /\ v.sub = None /\ v.rule_name = None
AllSet(v) == v.main # None /\ v.sub # None /\ v.rule_name # None

\* The triple a stored rule stands for.
VerdictOf(rule) == Verdict(rule.main_category, rule.sub_category, rule.name)

HasList(rule) == rule.keywords.type = "list"
KeywordRuleHits(rule, text) == HasList(rule) /\ AnyIn(rule.keywords.items, text)

WellFormed(snapshot) ==
  /\ \A i \in 1..Len(snapshot.rules) : HasList(snapshot.rules[i])
  /\ \A i \in 1..Len(snapshot.salary_rules) : HasList(snapshot.salary_rules[i])

\* An employee name of rules.py occurs together with a fixed context token.
StaticSalaryCase(text) ==
  /\ \E i \in 1..Len(SalaryPairs(SALARY_NAME_MAP)) :
        Contains(SalaryPairs(SALARY_NAME_MAP)[i].nm, text)
  /\ AnyIn(SalaryContext, text)

\* C1: every classify call returns a triple whose three fields are all None
\* or all set, whatever the narration and the rule store.
C1_NoPartialVerdict ==
  call.fn # "none" => AllNull(call.verdict) \/ AllSet(call.verdict)

C1_Witness == IsWrapperCall /\ call.used /\ AllSet(call.verdict)

\* C2: when an employee name and a salary-context token (one of SALARY,
\* EXPENSES, NEFT DR, IMPS, TPT) occur in the narration and a keyword rule
\* matches too, the verdict is the salary one, main = "Salaries & Wages",
\* never the keyword rule's.
C2_SalaryVerdictIsSalariesAndWages ==
  /\ (IsStaticCall /\ StaticSalaryCase(CallText)
        /\ \E i \in 1..Len(RULES) : RuleMatches(RULES[i], CallText))
     => call.verdict.main = Some("Salaries & Wages")
  /\ (IsWrapperCall /\ call.used /\ WellFormed(Snapshot)
        /\ (\E i \in 1..Len(Snapshot.salary_rules) :
              /\ Len(Snapshot.salary_rules[i].keywords.items) >= 1
              /\ Contains(Snapshot.salary_rules[i].keywords.items[1], CallText))
        /\ AnyIn(SalaryContext, CallText)
        /\ \E j \in 1..Len(Snapshot.rules) : KeywordRuleHits(Snapshot.rules[j], CallText))
     => call.verdict.main = Some("Salaries & Wages")

\* The index, in insertion order, of the element of `hits` with the lowest
\* priority, the earliest one among equals.
FirstByPriority(hits, PriorityAt(_)) ==
  CHOOSE w \in hits : \A i \in hits :
     PriorityAt(w) < PriorityAt(i) \/ (PriorityAt(w) = PriorityAt(i) /\ w <= i)

RowIsArray(row) == row.keywords # None /\ row.keywords[1].json = "array"
RowHits(row, text) ==
  /\ row.is_active = 1
  /\ RowIsArray(row)
  /\ IF StartsWith(row.name, "Salary: ")
     THEN /\ Len(row.keywords[1].items) >= 2
          /\ Contains(row.keywords[1].items[1], text)
          /\ AnyIn(Tail(row.keywords[1].items), text)
     ELSE AnyIn(row.keywords[1].items, text)

\* C3: when no salary rule matches and keyword rules match, the verdict is
\* that of the matching rule with the lowest priority value, and among equal
\* priorities that of the rule inserted first.
C3_LowestPriorityThenFirstInserted ==
  /\ (IsStaticCall /\ ~StaticSalaryCase(CallText))
     => LET hits == {i \in 1..Len(RULES) : RuleMatches(RULES[i], CallText)}
            PriorityAt(i) == PriorityOf(RULES[i])
        IN  hits # {} =>
              LET w == FirstByPriority(hits, PriorityAt)
              IN  call.verdict = Verdict(RULES[w].main, RULES[w].sub, RULES[w].name)
  /\ (IsWrapperCall /\ call.used /\ WellFormed(Snapshot))
     => LET rows == Source
            salary == {i \in 1..Len(rows) :
                         StartsWith(rows[i].name, "Salary: ") /\ RowHits(rows[i], CallText)}
            hits == {i \in 1..Len(rows) :
                       ~StartsWith(rows[i].name, "Salary: ") /\ RowHits(rows[i], CallText)}
            PriorityAt(i) == rows[i].priority
        IN  (salary = {} /\ hits # {}) =>
              call.verdict = VerdictOf(rows[FirstByPriority(hits, PriorityAt)])

\* C4: a keyword rule with a `not` token that occurs in the upper-cased
\* narration never gives the verdict, in rules.apply_rules and, once the rule
\* is pushed to the table, in apply_rules_wrapper.
C4_NotTokenVetoes ==
  /\ IsStaticCall =>
       \A i \in 1..Len(RULES) :
          call.verdict = Verdict(RULES[i].main, RULES[i].sub, RULES[i].name)
            => ~AnyIn(NotOf(RULES[i]), CallText)
  /\ (IsWrapperCall /\ call.used) =>
       \A i \in 1..Len(RULES) :
          (/\ call.verdict = Verdict(RULES[i].main, RULES[i].sub, RULES[i].name)
           /\ \E j \in 1..Len(Source) : Source[j] = ScriptRuleRow(RULES[i]))
            => ~AnyIn(NotOf(RULES[i]), CallText)

StaticSalaryVerdict ==
  call.verdict.rule_name # None /\ StartsWith(call.verdict.rule_name[1], "Salary name: ")
WrapperSalaryVerdict ==
  call.verdict.rule_name # None /\ StartsWith(call.verdict.rule_name[1], "Salary: ")

\* The salary verdict of rules.apply_rules names an employee whose full name
\* occurs, and a fixed context token occurs.
StaticSalaryVerdictJustified ==
  (IsStaticCall /\ StaticSalaryVerdict)
    => /\ \E i \in 1..Len(SalaryPairs(SALARY_NAME_MAP)) :
             /\ call.verdict.rule_name = Some("Salary name: " \o SalaryPairs(SALARY_NAME_MAP)[i].nm)
             /\ Contains(SalaryPairs(SALARY_NAME_MAP)[i].nm, CallText)
       /\ AnyIn(SalaryContext, CallText)

\* C5: a salary verdict is returned only if an employee name occurs in full
\* in the upper-cased narration and one of SALARY, EXPENSES, NEFT DR, IMPS,
\* TPT occurs in it.
C5_SalaryVerdictNeedsFixedToken ==
  /\ StaticSalaryVerdictJustified
  /\ (IsWrapperCall /\ call.used /\ WrapperSalaryVerdict)
     => /\ \E i \in 1..Len(Snapshot.salary_rules) :
             /\ call.verdict = VerdictOf(Snapshot.salary_rules[i])
             /\ HasList(Snapshot.salary_rules[i])
             /\ Len(Snapshot.salary_rules[i].keywords.items) >= 1
             /\ Contains(Snapshot.salary_rules[i].keywords.items[1], CallText)
        /\ AnyIn(SalaryContext, CallText)

\* C6: the verdict of apply_rules_wrapper is None or that of a row that was
\* active in the table the snapshot was read from and whose keywords occur.
C6_InactiveNeverDecides ==
  (IsWrapperCall /\ ~AllNull(call.verdict))
    => /\ call.used
       /\ \E i \in 1..Len(Source) :
            /\ Source[i].is_active = 1
            /\ call.verdict = VerdictOf(Source[i])
            /\ RowIsArray(Source[i])
            /\ AnyIn(Source[i].keywords[1].items, CallText)

C6_Witness ==
  /\ IsWrapperCall /\ call.used /\ AllSet(call.verdict)
  /\ \E i \in 1..Len(Source) :
       /\ Source[i].is_active = 0
       /\ RowIsArray(Source[i])
       /\ AnyIn(Source[i].keywords[1].items, CallText)

\* C7: a call that has to query the database while it is unreachable returns
\* the all-None triple and raises nothing.
C7_UnavailableStoreGivesNoMatch ==
  (IsWrapperCall /\ ~db_up /\ call.queried)
    => /\ call.verdict = NoVerdict
       /\ ~call.raised
       /\ ~call.used

C7_Witness == IsWrapperCall /\ ~db_up /\ call.queried /\ call.seen # None

IsUnparsable(row) == row.keywords # None /\ row.keywords[1].json = "invalid"
UnparsableNames(table) ==
  {table[i].name : i \in {j \in 1..Len(table) : IsUnparsable(table[j])}}
Without(rules, names) ==
  LET Kept(rule) == rule.name \notin names IN SelectSeq(rules, Kept)

C9_CacheValidFor300Seconds ==
  IsWrapperCall
    => /\ (call.seen # None /\ call.time - call.seen[1] < 300)
          => (~call.queried /\ call.used /\ _db_rules_timestamp = call.seen)
       /\ (call.seen # None /\ call.time - call.seen[1] >= 300)
          => (call.queried /\ (db_up => call.loaded /\ _db_rules_timestamp = Some(call.time)))
       /\ call.used
          => (_db_rules_timestamp # None /\ call.time - _db_rules_timestamp[1] < 300)

C9_Witness ==
  /\ IsWrapperCall /\ call.loaded
  /\ call.seen # None
  /\ call.time - call.seen[1] = 300

\* C10: a classify call that starts after a mutation has committed uses a
\* snapshot of the table as committed, however earlier classify calls fell
\* among the steps of the mutation.  The calls looked at are those made when
\* no mutation is under way, so that every commit is over and every cache
\* clear of the mutation has run.
C10_CallsAfterCommitSeeCommittedRules ==
  (IsWrapperCall /\ call.used /\ writer = Idle) => cache_source = Some(rules_table)

\* The snapshot of the table as it stands, which is both the old and the new
\* one while no request writes the table.
TableSnapshot == BuildSnapshot(SelectActiveRules(rules_table, "asc"))

\* C11: a classify call that runs alongside a reload or a cache clear ends
\* without an exception and with the verdict of a complete snapshot of the
\* table; it never works on a null snapshot while the database is reachable.
C11_ReaderSeesWholeSnapshot ==
  \A t \in Threads :
     (reader[t].pc = "done" /\ db_up)
       => /\ ~reader[t].raised
          /\ reader[t].rules_data = Some(TableSnapshot)
          /\ reader[t].verdict = ApplySnapshot(TableSnapshot, reader[t].narration[1])

\* C13: when add_rules_to_database or sync_rules fails and the table is as it
\* was, the cached snapshot and its timestamp are those the request found.
C13_FailedMutationKeepsCache ==
  [][(writer.pc # "failed" /\ writer'.pc = "failed" /\ rules_table' = rules_table)
       => <<_db_rules_cache', _db_rules_timestamp'>> = writer'.before[1]]_vars

\* C12: when update_rules_file has failed, or what it wrote does not pass the
\* structural validation, rules.py holds exactly the text it held before the
\* invocation.
C12_FailedUpdateKeepsRuleSet ==
  (updater.pc = "returned" /\ (~updater.result \/ ~Parses(rules_py)))
    => rules_py = updater.content

\* What a candidate of the merge is in the words of the rule-merge section:
\* its first three keywords, and the active rules of other categories that
\* hold one of them.
TopKeywords(h) == {h.keywords[k] : k \in 1..Len(Take(h.keywords, 3))}
HoldsKeyword(row, K) ==
  RowIsArray(row) /\ \E i \in 1..Len(row.keywords[1].items) : row.keywords[1].items[i] \in K
ConflictsOf(h, table) ==
  {id \in 1..Len(table) :
     /\ IsActive(table[id])
     /\ HoldsKeyword(table[id], TopKeywords(h))
     /\ <<table[id].main_category, table[id].sub_category>> # <<h.main_category, h.sub_category>>}

\* C14: when a candidate's first three keywords include a keyword held by an
\* active rule of other categories, the round of the merge for that candidate
\* sets the categories of every such rule to the candidate's, marks it
\* 'manual-updated', and queues no new rule.
C14_ConflictOverwritesEveryRule ==
  [][(merge.pc = "loop" /\ Len(merge'.handled) = Len(merge.handled) + 1)
       => LET h == merge'.handled[Len(merge'.handled)]
              conflicts == ConflictsOf(h, merge.view)
          IN  conflicts # {}
                => /\ \A id \in conflicts :
                        /\ merge'.view[id].main_category = h.main_category
                        /\ merge'.view[id].sub_category = h.sub_category
                        /\ merge'.view[id].created_by = "manual-updated"
                   /\ merge'.new_rules = merge.new_rules
                   /\ conflicts \subseteq merge'.updated_rules]_vars

\* The merge has returned after a conflict: the rule carries the candidate's
\* categories in the table.
C14_Witness ==
  /\ merge.pc = "done"
  /\ Len(merge.handled) = 1
  /\ ConflictsOf(merge.handled[1], merge.before) # {}
  /\ \A id \in ConflictsOf(merge.handled[1], merge.before) :
        /\ rules_table[id].main_category = merge.handled[1].main_category
        /\ rules_table[id].sub_category = merge.handled[1].sub_category
        /\ rules_table[id].created_by = "manual-updated"
  /\ Len(rules_table) = Len(merge.before)

\* C15: a candidate without conflict leaves the rules as they are when an
\* active rule of its categories holds its first keyword; otherwise exactly
\* one rule is inserted for it, with its categories, its first three keywords
\* and a name that starts with 'Manual: '.
C15_NoConflictInsertsOneRule ==
  merge.pc = "done"
    => \A j \in 1..Len(merge.handled) :
         LET h == merge.handled[j]
             inserted ==
               {id \in (Len(merge.before) + 1)..Len(rules_table) :
                  /\ rules_table[id].main_category = h.main_category
                  /\ rules_table[id].sub_category = h.sub_category
                  /\ rules_table[id].keywords = Some(JsonDumps(Take(h.keywords, 3)))
                  /\ StartsWith(rules_table[id].name, "Manual: ")}
         IN  (h.keywords # <<>> /\ h.conflicting_rules = {})
               => Cardinality(inserted) = (IF h.exists THEN 0 ELSE 1)

\* C16: a second run of the learner over the same transactions, after the
\* rules of the first run have been added to the rules, returns no rule.
C16_SecondRunLearnsNothing ==
  (/\ learner.pc = "done"
   /\ learner.adopted # None
   /\ learner.adopted[1].version = learner.version)
    => learner.new_rules = <<>>

\* C18: two calls of create_pattern_key and extract_keywords with the same
\* description and vendor return the same key and the same list of keywords,
\* in the same order, also in two different processes.
C18_SameInputSameKeywordList ==
  \A i, j \in 1..Len(learner.calls) :
     (/\ learner.calls[i].version = learner.calls[j].version
      /\ learner.calls[i].normalized_desc = learner.calls[j].normalized_desc
      /\ learner.calls[i].vendor_text = learner.calls[j].vendor_text)
       => /\ learner.calls[i].pattern_key = learner.calls[j].pattern_key
          /\ learner.calls[i].keywords = learner.calls[j].keywords

\* C19: a pattern key taken from the vendor text is no generic token and not
\* a number, and with a generic vendor text the key is the one the
\* description gives.
C19_VendorKeyNeverGeneric ==
  \A i \in 1..Len(learner.calls) :
     LET c == learner.calls[i]
         vendor_clean == Strip(Upper(c.vendor_text))
     IN  /\ (vendor_clean # "" /\ c.pattern_key = vendor_clean)
              => (vendor_clean \notin GenericTokens /\ ~IsDigit(vendor_clean))
         /\ vendor_clean \in GenericTokens
              => c.pattern_key = create_pattern_key(c.version, c.normalized_desc, "")

\* C17: normalize_desc is idempotent, and its result has no two spaces in a
\* row and no space at either end.
C17_NormalizeIsIdempotent ==
  request.pc = "classified"
    => /\ normalize_desc(request.nd) = request.nd
       /\ ~Contains("  ", request.nd)
       /\ ~StartsWith(request.nd, " ")
       /\ request.nd = "" \/ SubSeq(request.nd, Len(request.nd), Len(request.nd)) # " "

\* C20: the ML classifier is called only when the rule stage gave no main
\* category (null), the LLM only when it gave no sub-category (null), and
\* what the rule stage gave is what the response carries.
C20_RuleVerdictIsFinal ==
  request.pc = "classified"
    => /\ request.ml_called => request.staged.main = None
       /\ request.llm_called => request.staged.sub = None
       /\ request.staged.main # None
            => request.main_category_suggested = request.staged.main[1]
       /\ request.staged.sub # None
            => request.sub_category_suggested = request.staged.sub[1]

(***************************************************************************)
(* The candidates of the learners.  At pc = "done" the run has returned    *)
(* its rules and still holds the groups they were made of.                 *)
(***************************************************************************)

LearnDone == learner.pc = "done"
FileLearnDone == LearnDone /\ learner.version \in LearnVersions

\* The keyword list of a candidate: `keywords` in app.py, `any` in the scripts.
CandidateKeywords(r) == IF learner.version = "app" THEN r.keywords ELSE r.any
CandidateMain(r) == IF learner.version = "app" THEN r.main_category ELSE r.main
CandidateSub(r) == IF learner.version = "app" THEN r.sub_category ELSE r.sub

SeqRange(seq) == {seq[i] : i \in 1..Len(seq)}
CountIn(seq, x) == Cardinality({i \in 1..Len(seq) : seq[i] = x})

\* The step function of the specification, on the sum of the confidences.
StepPriority(frequency, confidence_sum) ==
  IF frequency >= 10 /\ confidence_sum >= 90 * frequency THEN 10
  ELSE IF frequency >= 5 /\ confidence_sum >= 80 * frequency THEN 20
  ELSE IF frequency >= 3 /\ confidence_sum >= 70 * frequency THEN 30
  ELSE 50

\* C21: the priority of every candidate is the step function of its
\* frequency and average confidence.
C21_PriorityIsStepFunction ==
  LearnDone =>
    \A i \in 1..Len(learner.new_rules) :
       learner.new_rules[i].priority =
         StepPriority(learner.new_rules[i].frequency, learner.new_rules[i].confidence_sum)

\* The groups of the corpus: the groups the scripts built, and for app.py
\* the reviewed rows that agree in the GROUP BY columns.
CorpusGroups ==
  IF learner.version = "app" THEN GroupRows(learner.all_transactions)
  ELSE learner.pattern_groups

\* The keywords of a group that are new and at least three characters long.
NovelKeywords(g) ==
  IF learner.version = "app"
  THEN {kw \in SeqRange(AppKeywords(g.normalized_desc, g.vendor_text,
                                    learner.existing_keywords)) : Len(kw) >= 3}
  ELSE {kw \in SeqRange(g.keywords) : kw \notin learner.existing_keywords /\ Len(kw) >= 3}

MeetsThresholds(g) ==
  /\ Len(g.transactions) >= 2
  /\ GroupConfidenceSum(g) >= 80 * Len(g.transactions)

\* C22: the candidates are those of the groups with frequency >= 2, average
\* confidence >= 0.8 and a new keyword, one each, with the group's frequency
\* and confidence.
C22_CandidatesAreTheGroupsOverThresholds ==
  LearnDone =>
    LET candidates == [i \in 1..Len(learner.new_rules) |->
                         <<learner.new_rules[i].frequency,
                           learner.new_rules[i].confidence_sum>>]
        qualifying == SelectSeq(CorpusGroups,
                                LAMBDA g : MeetsThresholds(g) /\ NovelKeywords(g) # {})
        aggregates == [i \in 1..Len(qualifying) |->
                         <<Len(qualifying[i].transactions),
                           GroupConfidenceSum(qualifying[i])>>]
    IN  \A x \in SeqRange(candidates) \cup SeqRange(aggregates) :
           CountIn(candidates, x) = CountIn(aggregates, x)

\* C23: every candidate has one to three keywords, each at least three
\* characters long, new, and a keyword of a group; there are no more
\* candidates than groups with such a keyword.
C23_OneToThreeNewKeywords ==
  LearnDone =>
    /\ \A i \in 1..Len(learner.new_rules) :
          LET any == CandidateKeywords(learner.new_rules[i])
          IN  /\ Len(any) \in 1..3
              /\ \A k \in 1..Len(any) :
                    /\ Len(any[k]) >= 3
                    /\ any[k] \notin learner.existing_keywords
                    /\ \E j \in 1..Len(learner.pattern_groups) :
                          any[k] \in
                            (IF learner.version = "app"
                             THEN SeqRange(AppKeywords(learner.pattern_groups[j].normalized_desc,
                                                       learner.pattern_groups[j].vendor_text,
                                                       learner.existing_keywords))
                             ELSE SeqRange(learner.pattern_groups[j].keywords))
    /\ Len(learner.new_rules)
         <= Cardinality({j \in 1..Len(learner.pattern_groups) :
                           NovelKeywords(learner.pattern_groups[j]) # {}})

\* C24: the name of a candidate is "Auto-learned: " and its first keyword,
\* followed by " +<N-1>" when it has N > 1 keywords.
C24_NameOfFirstKeyword ==
  LearnDone =>
    \A i \in 1..Len(learner.new_rules) :
       LET any == CandidateKeywords(learner.new_rules[i])
       IN  learner.new_rules[i].name =
             "Auto-learned: " \o any[1] \o
               (IF Len(any) > 1 THEN " +" \o ToString(Len(any) - 1) ELSE "")

\* C25: the keywords of a group are the keywords of all its transactions.
C25_GroupKeywordsAreTheUnion ==
  FileLearnDone =>
    \A j \in 1..Len(learner.pattern_groups) :
       LET g == learner.pattern_groups[j]
       IN  SeqRange(g.keywords) =
             UNION {KeywordSet(learner.version, g.transactions[i].normalized_desc,
                               g.transactions[i].vendor_text) :
                      i \in 1..Len(g.transactions)}

\* The rows of the corpus with the pattern key of a group, in corpus order.
Members(g) ==
  SelectSeq(learner.all_transactions, LAMBDA row :
    /\ row.main_category # ""
    /\ row.sub_category # ""
    /\ create_pattern_key(learner.version, row.normalized_desc, row.vendor_text)
         = g.pattern_key)

\* C26: a group, and the candidate made of it, has the category of the first
\* row of the corpus with its pattern key; the rows with other labels count
\* in its frequency and confidence.
C26_CategoryOfFirstMember ==
  FileLearnDone =>
    /\ \A j \in 1..Len(learner.pattern_groups) :
          LET g == learner.pattern_groups[j]
          IN  /\ g.transactions = Members(g)
              /\ g.main_category = Members(g)[1].main_category
              /\ g.sub_category = Members(g)[1].sub_category
    /\ \A i \in 1..Len(learner.new_rules) :
          LET r == learner.new_rules[i]
          IN  \E j \in 1..Len(learner.pattern_groups) :
                 LET g == learner.pattern_groups[j]
                 IN  /\ r.main = Members(g)[1].main_category
                     /\ r.sub = Members(g)[1].sub_category
                     /\ r.frequency = Len(Members(g))
                     /\ r.confidence_sum = GroupConfidenceSum([transactions |-> Members(g)])
                     /\ SeqRange(r.any) \subseteq SeqRange(g.keywords)

\* A candidate made of a group whose later rows carry another category.
C26_Witness ==
  /\ FileLearnDone
  /\ \E i \in 1..Len(learner.new_rules), j \in 1..Len(learner.pattern_groups) :
        LET r == learner.new_rules[i]
            g == learner.pattern_groups[j]
        IN  /\ SeqRange(r.any) \subseteq SeqRange(g.keywords)
            /\ r.frequency = Len(g.transactions)
            /\ r.main = g.transactions[1].main_category
            /\ \E k \in 2..Len(g.transactions) :
                  g.transactions[k].main_category # r.main

\* C27: in a run of the validating update_rules_file that started from a
\* file that parses, the file on disk parses while the merged text awaits
\* its validation and until the run has answered.
C27_FileOnDiskAlwaysParses ==
  (updater.pc \in {"validate", "restore"} /\ Parses(updater.content))
    => Parses(rules_py)

\* C30: when the merge has returned, no two active rules that hold one of the
\* first three keywords of a candidate it handled have different categories.
C30_NoConflictLeftBehind ==
  merge.pc = "done" =>
    \A n \in 1..Len(merge.handled) :
       \A kw \in TopKeywords(merge.handled[n]) :
          \A a, b \in 1..Len(rules_table) :
             (/\ IsActive(rules_table[a]) /\ HoldsKeyword(rules_table[a], {kw})
              /\ IsActive(rules_table[b]) /\ HoldsKeyword(rules_table[b], {kw}))
               => <<rules_table[a].main_category, rules_table[a].sub_category>>
                    = <<rules_table[b].main_category, rules_table[b].sub_category>>

\* C29: the names of the rules of the table are pairwise distinct after any
\* number of add_rules_to_database calls that run one after the other.
C29_NamesStayDistinct ==
  \A a, b \in 1..Len(rules_table) :
     rules_table[a].name = rules_table[b].name => a = b

\* add_rules_to_database was given two rules of one name and has inserted
\* one row of that name.
C29_Witness ==
  /\ merge.pc = "done"
  /\ Len(merge.new_rules) = 2
  /\ merge.new_rules[1].name = merge.new_rules[2].name
  /\ Cardinality({a \in 1..Len(rules_table) :
                    /\ rules_table[a].name = merge.new_rules[1].name
                    /\ rules_table[a].created_by = "auto-learned"}) = 1
  /\ Len(rules_table) = Len(merge.before) + 1

\* Two tables with the same rows, whatever their order.
SameRows(s, t) ==
  /\ Len(s) = Len(t)
  /\ \A x \in SeqRange(s) \cup SeqRange(t) : CountIn(s, x) = CountIn(t, x)

BothReturned == \A t \in Threads : adders[t].pc = "returned"

\* The table is what the two calls leave when one runs after the other.
SerialOutcome ==
  \/ SameRows(rules_table,
              InsertNewRules(InsertNewRules(RaceTable, adders[1].given), adders[2].given))
  \/ SameRows(rules_table,
              InsertNewRules(InsertNewRules(RaceTable, adders[2].given), adders[1].given))

\* C28: nothing keeps two calls of add_rules_to_database apart.  When both
\* have returned the table is that of one of the two serial orders unless the
\* calls ran at the same time, and then a rule has been inserted twice.
C28_SerialUnlessInterleaved ==
  BothReturned =>
    \/ SerialOutcome
    \/ /\ \A t \in Threads : ~adders[t].alone
       /\ \E a, b \in 1..Len(rules_table) :
             a # b /\ rules_table[a].name = rules_table[b].name

\* Two calls that ran at the same time have left a table that neither serial
\* order gives.
C28_Witness == BothReturned /\ ~SerialOutcome

====
